---- MODULE Spec2Model ----
(***************************************************************************)
(* Ignore resolution of myreporeader: the pattern matcher                  *)
(* (internal/filters/ignore.go), the per-directory rule store and the      *)
(* resolver isIgnored (main.go), and the run of output() that calls them.  *)
(*                                                                         *)
(* A Go string is modelled as a sequence of one-character strings, so that *)
(* prefix, suffix and substring tests are computed character by character  *)
(* as the strings package computes them.                                   *)
(***************************************************************************)
EXTENDS Integers, Sequences, FiniteSets, TLC

VARIABLES
    pc,             \* position of the run / of a harness
    rel,            \* MatchPattern: the relative path argument
    pattern,        \* MatchPattern: the pattern argument
    matched,        \* MatchPattern: the returned value ("none" before the call)
    ignoreFiles,    \* the file system: directory -> content of its .gitignore
    gitignoreRules, \* main.go:31, the rule store: directory -> rules
    call,           \* the last isIgnored call: its arguments and what it did
    target,         \* main.go:378, targetPath
    folderPath,     \* main.go:372, the scan root of the run
    filePaths,      \* main.go:376
    stack,          \* the entries the current walk still has to visit
    childPaths,     \* main.go:466, the top-level entries kept for the summary
    log,            \* the calls of the run so far: operation, path, result
    loads,          \* how many times loadGitignores has run
    shown,          \* the files printed under "File Contents"
    fileCount,      \* main.go:459
    lineCount,      \* main.go:459
    tree,           \* the file system: which tree the tool is run on
    unreadable,     \* the file system: the directories os.ReadDir fails on
    git,            \* main.go:461-462: "none" without .git, "fails" when git
                    \* ls-files fails, "works" when it succeeds ("unasked" before)
    strategy,       \* the strategy that computes the summary ("none" before)
    stderr,         \* the messages written to os.Stderr
    textPath,       \* IsTextFile, countLinesInFile: the path argument
    textData,       \* the bytes of the file at textPath
    textOpened,     \* whether os.Open of textPath succeeds
    isText,         \* IsTextFile: what the call did ("none" before the call)
    lineResult      \* countLinesInFile: the returned values ("none" before the call)

matcherVars == <<rel, pattern, matched>>
textVars == <<textPath, textData, textOpened, isText, lineResult>>
envVars == <<tree, unreadable>>
summaryVars == <<git, strategy, stderr>>
runVars == <<target, folderPath, filePaths, stack, childPaths, log, loads, shown,
             fileCount, lineCount, git, strategy, stderr>>
vars == <<pc, rel, pattern, matched, ignoreFiles, gitignoreRules, call, target,
          folderPath, filePaths, stack, childPaths, log, loads, shown, fileCount,
          lineCount, tree, unreadable, git, strategy, stderr, textPath, textData,
          textOpened, isText, lineResult>>

-----------------------------------------------------------------------------
(* Bounds of the model *)

MaxRelLen == 5
MaxPatLen == 3
MaxLines == 3

\* the characters strings are built from: the separator, the two characters
\* the matcher treats specially at the head of a pattern, and a letter
Alphabet == {"/", "*", ".", "a"}

RECURSIVE StringsUpTo(_)
StringsUpTo(n) ==
    IF n = 0 THEN {<<>>}
    ELSE LET shorter == StringsUpTo(n - 1)
         IN  shorter \cup {Append(s, c) : s \in {t \in shorter : Len(t) = n - 1}, c \in Alphabet}

-----------------------------------------------------------------------------
(* package strings *)

HasPrefix(s, prefix) ==
    Len(s) >= Len(prefix) /\ SubSeq(s, 1, Len(prefix)) = prefix

HasSuffix(s, suffix) ==
    Len(s) >= Len(suffix) /\ SubSeq(s, Len(s) - Len(suffix) + 1, Len(s)) = suffix

Contains(s, substr) ==
    \E i \in 1..(Len(s) - Len(substr) + 1) : SubSeq(s, i, i + Len(substr) - 1) = substr

TrimSuffix(s, suffix) ==
    IF HasSuffix(s, suffix) THEN SubSeq(s, 1, Len(s) - Len(suffix)) ELSE s

\* strings.Split(s, sep) for a separator of one character
\* strings.Index for a separator of one character, from 1; 0 when absent
Index(s, sep) ==
    IF \A i \in 1..Len(s) : s[i] # sep THEN 0
    ELSE CHOOSE i \in 1..Len(s) : s[i] = sep /\ \A j \in 1..(i - 1) : s[j] # sep

RECURSIVE Split(_, _)
SplitAt(s, sep, k) ==
    IF k = 0 THEN <<s>>
    ELSE <<SubSeq(s, 1, k - 1)>> \o Split(SubSeq(s, k + 1, Len(s)), sep)

Split(s, sep) == SplitAt(s, sep, Index(s, sep))

\* unicode.IsSpace on the characters of the model
IsSpace(c) == c \in {" ", "\t", "\n", "\r", "\f"}

\* strings.TrimSpace
RECURSIVE TrimLeft(_)
TrimLeft(s) == IF s # <<>> /\ IsSpace(Head(s)) THEN TrimLeft(Tail(s)) ELSE s

RECURSIVE TrimRight(_)
TrimRight(s) ==
    IF s # <<>> /\ IsSpace(s[Len(s)]) THEN TrimRight(SubSeq(s, 1, Len(s) - 1)) ELSE s

TrimSpace(s) == TrimRight(TrimLeft(s))

\* strings.Join(elems, sep)
RECURSIVE JoinWith(_, _)
JoinWith(elems, sep) ==
    IF elems = <<>> THEN <<>>
    ELSE IF Len(elems) = 1 THEN elems[1]
    ELSE elems[1] \o sep \o JoinWith(Tail(elems), sep)

\* os.PathSeparator of the build (a Unix build)
Separator == "/"

\* filepath.ToSlash: every Separator becomes "/"
ToSlash(path) ==
    [i \in 1..Len(path) |-> IF path[i] = Separator THEN "/" ELSE path[i]]

-----------------------------------------------------------------------------
(* internal/filters/ignore.go *)

DefaultIgnorePatterns ==
    << <<"n", "o", "d", "e", "_", "m", "o", "d", "u", "l", "e", "s", "/">>,
       <<"p", "a", "c", "k", "a", "g", "e", "-", "l", "o", "c", "k", ".", "j", "s", "o", "n">>,
       <<"y", "a", "r", "n", ".", "l", "o", "c", "k">>,
       <<"p", "n", "p", "m", "-", "l", "o", "c", "k", ".", "y", "a", "m", "l">>,
       <<".", "n", "e", "x", "t", "/">>,
       <<"d", "i", "s", "t", "/">>,
       <<"b", "u", "i", "l", "d", "/">>,
       <<"c", "o", "v", "e", "r", "a", "g", "e", "/">>,
       <<"_", "_", "p", "y", "c", "a", "c", "h", "e", "_", "_", "/">>,
       <<".", "v", "e", "n", "v", "/">>,
       <<".", "m", "y", "p", "y", "_", "c", "a", "c", "h", "e", "/">>,
       <<".", "p", "y", "t", "e", "s", "t", "_", "c", "a", "c", "h", "e", "/">>,
       <<"P", "i", "p", "f", "i", "l", "e", ".", "l", "o", "c", "k">>,
       <<"p", "o", "e", "t", "r", "y", ".", "l", "o", "c", "k">>,
       <<"t", "a", "r", "g", "e", "t", "/">>,
       <<"b", "u", "i", "l", "d", "/">>,
       <<".", "g", "r", "a", "d", "l", "e", "/">>,
       <<"*", ".", "i", "m", "l">>,
       <<"b", "i", "n", "/">>,
       <<"o", "b", "j", "/">>,
       <<"p", "a", "c", "k", "a", "g", "e", "s", "/">>,
       <<"v", "e", "n", "d", "o", "r", "/">>,
       <<"*", ".", "e", "x", "e">>,
       <<"*", ".", "o", "u", "t">>,
       <<"t", "a", "r", "g", "e", "t", "/">>,
       <<"C", "a", "r", "g", "o", ".", "l", "o", "c", "k">>,
       <<".", "D", "S", "_", "S", "t", "o", "r", "e">>,
       <<"T", "h", "u", "m", "b", "s", ".", "d", "b">> >>

\* a directory rule that wrongly matches its name at any depth even when anchored
DirectoryRuleAnchorLost(r, dir, anchored) ==
    \/ r = dir
    \/ HasSuffix(r, <<"/">> \o dir)
    \/ HasPrefix(r, dir \o <<"/">>)
    \/ Contains(r, <<"/">> \o dir \o <<"/">>)

\* a directory rule that, unanchored, forgets the paths that start with dir/
DirectoryRuleNoPrefix(r, dir, anchored) ==
    IF anchored
    THEN r = dir \/ HasPrefix(r, dir \o <<"/">>)
    ELSE \/ r = dir
         \/ HasSuffix(r, <<"/">> \o dir)
         \/ Contains(r, <<"/">> \o dir \o <<"/">>)

\* directory rule, dir non-empty (ignore.go:57-64)
DirectoryRule(r, dir, anchored) ==
    IF anchored
    THEN r = dir \/ HasPrefix(r, dir \o <<"/">>)
    ELSE \/ r = dir
         \/ HasSuffix(r, <<"/">> \o dir)
         \/ HasPrefix(r, dir \o <<"/">>)
         \/ Contains(r, <<"/">> \o dir \o <<"/">>)

\* an extension rule that wrongly keeps the star in the suffix it looks for
ExtensionRuleKeepsStar(r, p) == HasSuffix(r, p)

\* extension rule "*.ext": the suffix is p[1:] (ignore.go:69)
ExtensionRule(r, p) == HasSuffix(r, Tail(p))

\* an anchored plain rule that forgets the separator after the name
AnchoredPlainRuleNoSeparator(r, p) == r = p \/ HasPrefix(r, p)

\* an anchored plain rule that matches its name only, not the paths under it
AnchoredPlainRuleExactOnly(r, p) == r = p

\* anchored plain rule (ignore.go:74)
AnchoredPlainRule(r, p) == r = p \/ HasPrefix(r, p \o <<"/">>)

\* unanchored plain rule (ignore.go:78)
UnanchoredPlainRule(r, p) ==
    r = p \/ HasSuffix(r, <<"/">> \o p) \/ Contains(r, <<"/">> \o p \o <<"/">>)

\* ignore.go:51-78: the shape of the pattern p, which has lost its leading slash
MatchShape(r, anchored, p) ==
    IF HasSuffix(p, <<"/">>)
    THEN IF TrimSuffix(p, <<"/">>) = <<>> THEN FALSE
         ELSE DirectoryRule(r, TrimSuffix(p, <<"/">>), anchored)
    ELSE IF HasPrefix(p, <<"*", ".">>) THEN ExtensionRule(r, p)
    ELSE IF anchored THEN AnchoredPlainRule(r, p)
    ELSE UnanchoredPlainRule(r, p)

\* ignore.go:41-79
MatchPattern(relArg, patArg) ==
    MatchShape(ToSlash(relArg),
               HasPrefix(patArg, <<"/">>),
               ToSlash(IF HasPrefix(patArg, <<"/">>) THEN Tail(patArg) ELSE patArg))

-----------------------------------------------------------------------------
(* package path/filepath, Unix build *)

NonEmpty(segs) == SelectSeq(segs, LAMBDA seg : seg # <<>>)

\* filepath.Clean: the segments kept, "." dropped, ".." resolved
RECURSIVE CleanSegments(_, _, _)
CleanSegments(segs, out, rooted) ==
    IF segs = <<>> THEN out
    ELSE IF Head(segs) = <<>> \/ Head(segs) = <<".">>
    THEN CleanSegments(Tail(segs), out, rooted)
    ELSE IF Head(segs) # <<".", ".">>
    THEN CleanSegments(Tail(segs), Append(out, Head(segs)), rooted)
    ELSE IF out # <<>> /\ out[Len(out)] # <<".", ".">>
    THEN CleanSegments(Tail(segs), SubSeq(out, 1, Len(out) - 1), rooted)
    ELSE IF rooted
    THEN CleanSegments(Tail(segs), out, rooted)
    ELSE CleanSegments(Tail(segs), Append(out, Head(segs)), rooted)

DotIfEmpty(out) == IF out = <<>> THEN <<".">> ELSE out

Clean(path) ==
    DotIfEmpty((IF HasPrefix(path, <<"/">>) THEN <<"/">> ELSE <<>>)
                   \o JoinWith(CleanSegments(Split(path, "/"), <<>>, HasPrefix(path, <<"/">>)),
                               <<"/">>))

\* the working directory of the process
Cwd == <<"/">>

\* filepath.Abs
Abs(path) ==
    IF HasPrefix(path, <<"/">>) THEN Clean(path) ELSE Clean(Cwd \o <<"/">> \o path)

\* filepath.Join of two elements: empty elements are ignored
Join(a, b) ==
    IF a = <<>> /\ b = <<>> THEN <<>>
    ELSE IF a = <<>> THEN Clean(b)
    ELSE IF b = <<>> THEN Clean(a)
    ELSE Clean(a \o <<"/">> \o b)

\* index of the last separator of path, 0 when it has none
LastSlash(path) ==
    IF \A i \in 1..Len(path) : path[i] # "/" THEN 0
    ELSE CHOOSE i \in 1..Len(path) : path[i] = "/" /\ \A j \in (i + 1)..Len(path) : path[j] # "/"

\* filepath.Dir
Dir(path) == Clean(SubSeq(path, 1, LastSlash(path)))

\* filepath.Base
LastElement(t) == IF t = <<>> THEN <<"/">> ELSE SubSeq(t, LastSlash(t) + 1, Len(t))

Base(path) ==
    IF path = <<>> THEN <<".">>
    ELSE LastElement(CHOOSE u \in {SubSeq(path, 1, n) : n \in 0..Len(path)} :
                         /\ \A i \in (Len(u) + 1)..Len(path) : path[i] = "/"
                         /\ (u = <<>> \/ u[Len(u)] # "/"))

\* the segments of a cleaned path ("." and "/" have none)
PathSegments(cleaned) ==
    IF cleaned = <<".">> THEN <<>> ELSE NonEmpty(Split(cleaned, "/"))

\* length of the longest common prefix of two sequences of segments
CommonPrefix(bs, ts) ==
    CHOOSE k \in 0..Len(bs) :
        /\ k <= Len(ts)
        /\ \A i \in 1..k : bs[i] = ts[i]
        /\ (k = Len(bs) \/ k = Len(ts) \/ bs[k + 1] # ts[k + 1])

\* the relative path from the segments bs to the segments ts, which share k
RelSegments(bs, ts, k) ==
    IF \E i \in (k + 1)..Len(bs) : bs[i] = <<".", ".">> THEN <<>>
    ELSE DotIfEmpty(JoinWith([i \in 1..(Len(bs) - k) |-> <<".", ".">>] \o SubSeq(ts, k + 1, Len(ts)),
                             <<"/">>))

RelCleaned(base, targ) ==
    IF HasPrefix(base, <<"/">>) # HasPrefix(targ, <<"/">>) THEN <<>>
    ELSE RelSegments(PathSegments(base), PathSegments(targ),
                     CommonPrefix(PathSegments(base), PathSegments(targ)))

\* filepath.Rel; the empty string is what the callers get with the error they drop
Rel(basepath, targpath) == RelCleaned(Clean(basepath), Clean(targpath))

-----------------------------------------------------------------------------
(* internal/filters/textdetect.go.  A file content is a sequence of bytes; *)
(* a printable byte is its character, and "NUL", "x01" and "xFF" stand for *)
(* the bytes 0x00, 0x01 and 0xFF.                                          *)

TextExt ==
    { <<".", "t", "x", "t">>, <<".", "m", "d">>, <<".", "m", "d", "x">>, <<".", "r", "s", "t">>, <<".", "a", "d", "o", "c">>,
      <<".", "a", "s", "c", "i", "i", "d", "o", "c">>, <<".", "t", "e", "x">>, <<".", "b", "i", "b">>, <<".", "o", "r", "g">>, <<".", "t", "e", "x", "t", "i", "l", "e">>,
      <<".", "c", "s", "v">>, <<".", "t", "s", "v">>, <<".", "p", "s", "v">>, <<".", "n", "d", "j", "s", "o", "n">>, <<".", "l", "o", "g">>,
      <<".", "p", "r", "o", "p", "e", "r", "t", "i", "e", "s">>, <<".", "j", "s", "o", "n">>, <<".", "j", "s", "o", "n", "5">>, <<".", "j", "s", "o", "n", "c">>,
      <<".", "y", "a", "m", "l">>, <<".", "y", "m", "l">>, <<".", "t", "o", "m", "l">>, <<".", "i", "n", "i">>, <<".", "c", "f", "g">>,
      <<".", "c", "o", "n", "f">>, <<".", "e", "n", "v">>, <<".", "h", "t", "m", "l">>, <<".", "h", "t", "m">>, <<".", "x", "h", "t", "m", "l">>,
      <<".", "x", "m", "l">>, <<".", "x", "s", "d">>, <<".", "x", "s", "l">>, <<".", "x", "s", "l", "t">>, <<".", "d", "t", "d">>, <<".", "s", "v", "g">>,
      <<".", "c", "s", "s">>, <<".", "s", "c", "s", "s">>, <<".", "s", "a", "s", "s">>, <<".", "l", "e", "s", "s">>, <<".", "s", "t", "y", "l">>,
      <<".", "e", "j", "s">>, <<".", "p", "u", "g">>, <<".", "j", "a", "d", "e">>, <<".", "h", "b", "s">>, <<".", "m", "u", "s", "t", "a", "c", "h", "e">>,
      <<".", "n", "j", "k">>, <<".", "t", "w", "i", "g">>, <<".", "l", "i", "q", "u", "i", "d">>, <<".", "j", "s">>, <<".", "m", "j", "s">>,
      <<".", "c", "j", "s">>, <<".", "j", "s", "x">>, <<".", "t", "s">>, <<".", "t", "s", "x">>, <<".", "v", "u", "e">>, <<".", "s", "v", "e", "l", "t", "e">>,
      <<".", "a", "s", "t", "r", "o">>, <<".", "g", "o">>, <<".", "t", "m", "p", "l">>, <<".", "m", "o", "d">>, <<".", "s", "u", "m">>, <<".", "p", "y">>,
      <<".", "p", "y", "i">>, <<".", "p", "y", "w">>, <<".", "p", "y", "x">>, <<".", "p", "x", "d">>, <<".", "p", "x", "i">>, <<".", "r", "b">>,
      <<".", "e", "r", "b">>, <<".", "r", "a", "k", "e">>, <<".", "g", "e", "m", "s", "p", "e", "c">>, <<".", "p", "h", "p">>, <<".", "p", "h", "t", "m", "l">>,
      <<".", "p", "h", "p", "3">>, <<".", "p", "h", "p", "4">>, <<".", "p", "h", "p", "5">>, <<".", "p", "h", "p", "7">>, <<".", "p", "h", "p", "8">>,
      <<".", "j", "a", "v", "a">>, <<".", "j", "s", "p">>, <<".", "g", "r", "o", "o", "v", "y">>, <<".", "g", "r", "a", "d", "l", "e">>, <<".", "g", "v", "y">>,
      <<".", "g", "y">>, <<".", "g", "s", "h">>, <<".", "k", "t">>, <<".", "k", "t", "s">>, <<".", "k", "t", "m">>, <<".", "s", "c", "a", "l", "a">>,
      <<".", "s", "c">>, <<".", "s", "b", "t">>, <<".", "c">>, <<".", "h">>, <<".", "h", "p", "p">>, <<".", "h", "h">>,
      <<".", "h", "x", "x">>, <<".", "c", "p", "p">>, <<".", "c", "c">>, <<".", "c", "x", "x">>, <<".", "i", "n", "o">>, <<".", "i", "p", "p">>,
      <<".", "m">>, <<".", "m", "m">>, <<".", "p", "c", "h">>, <<".", "s", "w", "i", "f", "t">>, <<".", "x", "c", "c", "o", "n", "f", "i", "g">>,
      <<".", "p", "b", "x", "p", "r", "o", "j">>, <<".", "x", "c", "s", "c", "h", "e", "m", "e">>, <<".", "x", "c", "w", "o", "r", "k", "s", "p", "a", "c", "e", "d", "a", "t", "a">>,
      <<".", "p", "l", "i", "s", "t">>, <<".", "s", "t", "r", "i", "n", "g", "s">>, <<".", "c", "s">>, <<".", "c", "s", "x">>, <<".", "f", "s">>,
      <<".", "f", "s", "i">>, <<".", "f", "s", "x">>, <<".", "r", "s">>, <<".", "r", "o", "n">>, <<".", "h", "s">>, <<".", "l", "h", "s">>,
      <<".", "c", "a", "b", "a", "l">>, <<".", "m", "l">>, <<".", "m", "l", "i">>, <<".", "r", "e">>, <<".", "r", "e", "i">>, <<".", "e", "r", "l">>,
      <<".", "h", "r", "l">>, <<".", "e", "x">>, <<".", "e", "x", "s">>, <<".", "e", "e", "x">>, <<".", "l", "e", "e", "x">>, <<".", "h", "e", "e", "x">>,
      <<".", "l", "u", "a">>, <<".", "r", "o", "c", "k", "s", "p", "e", "c">>, <<".", "s", "h">>, <<".", "b", "a", "s", "h">>, <<".", "z", "s", "h">>,
      <<".", "k", "s", "h">>, <<".", "f", "i", "s", "h">>, <<".", "c", "o", "m", "m", "a", "n", "d">>, <<".", "p", "s", "1">>, <<".", "p", "s", "m", "1">>,
      <<".", "p", "s", "d", "1">>, <<".", "b", "a", "t">>, <<".", "c", "m", "d">>, <<".", "c", "m", "a", "k", "e">>, <<".", "n", "i", "n", "j", "a">>,
      <<".", "b", "a", "z", "e", "l">>, <<".", "b", "z", "l">>, <<".", "t", "f">>, <<".", "t", "f", "v", "a", "r", "s">>, <<".", "h", "c", "l">>,
      <<".", "c", "u", "e">>, <<".", "d", "h", "a", "l", "l">>, <<".", "p", "r", "o", "t", "o">>, <<".", "t", "h", "r", "i", "f", "t">>, <<".", "a", "v", "d", "l">>,
      <<".", "s", "q", "l">>, <<".", "p", "s", "q", "l">>, <<".", "m", "y", "s", "q", "l">>, <<".", "c", "q", "l">>, <<".", "g", "r", "a", "p", "h", "q", "l">>,
      <<".", "g", "q", "l">>, <<".", "p", "l", "a", "n", "t", "u", "m", "l">>, <<".", "p", "u", "m", "l">>, <<".", "d", "o", "t">>, <<".", "g", "v">>,
      <<".", "m", "e", "r", "m", "a", "i", "d">>, <<".", "m", "m", "d">>, <<".", "r">>, <<".", "R">>, <<".", "R", "m", "d">>, <<".", "q", "m", "d">>,
      <<".", "j", "l">> }

TextFilenames ==
    { <<"M", "a", "k", "e", "f", "i", "l", "e">>, <<"C", "M", "a", "k", "e", "L", "i", "s", "t", "s", ".", "t", "x", "t">>, <<"D", "o", "c", "k", "e", "r", "f", "i", "l", "e">>,
      <<".", "d", "o", "c", "k", "e", "r", "i", "g", "n", "o", "r", "e">>, <<".", "g", "i", "t", "i", "g", "n", "o", "r", "e">>, <<".", "g", "i", "t", "a", "t", "t", "r", "i", "b", "u", "t", "e", "s">>,
      <<".", "g", "i", "t", "m", "o", "d", "u", "l", "e", "s">>, <<".", "n", "p", "m", "r", "c">>, <<".", "n", "v", "m", "r", "c">>, <<".", "p", "r", "e", "t", "t", "i", "e", "r", "r", "c">>,
      <<".", "e", "s", "l", "i", "n", "t", "i", "g", "n", "o", "r", "e">>, <<".", "e", "s", "l", "i", "n", "t", "r", "c">>, <<"S", "C", "o", "n", "s", "t", "r", "u", "c", "t">>,
      <<"S", "C", "o", "n", "s", "c", "r", "i", "p", "t">>, <<"B", "U", "I", "L", "D">>, <<"B", "U", "I", "L", "D", ".", "b", "a", "z", "e", "l">>, <<"W", "O", "R", "K", "S", "P", "A", "C", "E">>,
      <<"W", "O", "R", "K", "S", "P", "A", "C", "E", ".", "b", "a", "z", "e", "l">>, <<"G", "e", "m", "f", "i", "l", "e">>, <<"R", "a", "k", "e", "f", "i", "l", "e">>,
      <<"V", "a", "g", "r", "a", "n", "t", "f", "i", "l", "e">>, <<"P", "r", "o", "c", "f", "i", "l", "e">>, <<"J", "e", "n", "k", "i", "n", "s", "f", "i", "l", "e">>, <<"L", "I", "C", "E", "N", "S", "E">>,
      <<"L", "I", "C", "E", "N", "S", "E", ".", "m", "d">>, <<"C", "O", "P", "Y", "I", "N", "G">>, <<"R", "E", "A", "D", "M", "E">>, <<"R", "E", "A", "D", "M", "E", ".", "m", "d">>,
      <<"C", "H", "A", "N", "G", "E", "L", "O", "G">>, <<"C", "H", "A", "N", "G", "E", "L", "O", "G", ".", "m", "d">>, <<"N", "O", "T", "I", "C", "E">>, <<"A", "U", "T", "H", "O", "R", "S">> }

UpperCase == <<"A", "B", "C", "D", "E", "F", "G", "H", "I", "J", "K", "L", "M", "N", "O", "P", "Q", "R", "S", "T", "U", "V", "W", "X", "Y", "Z">>
LowerCase == <<"a", "b", "c", "d", "e", "f", "g", "h", "i", "j", "k", "l", "m", "n", "o", "p", "q", "r", "s", "t", "u", "v", "w", "x", "y", "z">>

\* strings.ToLower
ToLower(s) ==
    [i \in 1..Len(s) |->
         IF \E k \in 1..Len(UpperCase) : UpperCase[k] = s[i]
         THEN LowerCase[CHOOSE k \in 1..Len(UpperCase) : UpperCase[k] = s[i]]
         ELSE s[i]]

\* filepath.Ext: from the last dot of the last element of path
ExtFrom(path, dots) ==
    IF dots = {} THEN <<>>
    ELSE SubSeq(path, CHOOSE i \in dots : \A j \in dots : j <= i, Len(path))

Ext(path) == ExtFrom(path, {i \in (LastSlash(path) + 1)..Len(path) : path[i] = "."})

\* textdetect.go:115-123
hasTextyName(path) ==
    \/ Base(path) \in TextFilenames
    \/ ToLower(Ext(Base(path))) \in TextExt

\* textdetect.go:133
sniff == 8192

Printable == {" ", "!", "#", "*", "-", ".", "/", "_"}
                 \cup {UpperCase[i] : i \in 1..26} \cup {LowerCase[i] : i \in 1..26}
                 \cup {"0", "1", "2", "3", "4", "5", "6", "7", "8", "9"}

\* textdetect.go:164: tab, LF, CR and 32..126
IsPrintableByte(b) == b \in Printable \cup {"\t", "\n", "\r"}

\* net/http DetectContentType on a sample that starts with none of the
\* signatures it knows: text unless one of the first 512 bytes is a byte it
\* calls binary
DetectContentType(s) ==
    IF \E i \in 1..Len(s) : i <= 512 /\ s[i] \in {"NUL", "x01"}
    THEN <<"a", "p", "p", "l", "i", "c", "a", "t", "i", "o", "n", "/", "o", "c", "t", "e", "t", "-", "s", "t", "r", "e", "a", "m">>
    ELSE <<"t", "e", "x", "t", "/", "p", "l", "a", "i", "n", ";", " ", "c", "h", "a", "r", "s", "e", "t", "=", "u", "t", "f", "-", "8">>

\* utf8.Valid on the bytes of the model: only 0xFF is not UTF-8
Utf8Valid(s) == \A i \in 1..Len(s) : s[i] # "xFF"

\* textdetect.go:161-167: the printable bytes of the sample
printable(s) == Cardinality({i \in 1..Len(s) : IsPrintableByte(s[i])})

\* a count that takes a last segment without newline for a line
NewlinesAndLastSegment(data) ==
    Cardinality({i \in 1..Len(data) : data[i] = "\n"})
        + (IF data # <<>> /\ data[Len(data)] # "\n" THEN 1 ELSE 0)

\* the newline bytes of a content
Newlines(data) == Cardinality({i \in 1..Len(data) : data[i] = "\n"})

\* a sniff that has lost its NUL test
SniffSampleNulUnchecked(s, mime) ==
    IF Len(s) = 0 THEN TRUE
    ELSE IF HasPrefix(mime, <<"t", "e", "x", "t", "/">>) THEN TRUE
    ELSE IF mime \in {<<"a", "p", "p", "l", "i", "c", "a", "t", "i", "o", "n", "/", "j", "s", "o", "n">>, <<"a", "p", "p", "l", "i", "c", "a", "t", "i", "o", "n", "/", "j", "a", "v", "a", "s", "c", "r", "i", "p", "t">>,
                      <<"a", "p", "p", "l", "i", "c", "a", "t", "i", "o", "n", "/", "x", "m", "l">>, <<"i", "m", "a", "g", "e", "/", "s", "v", "g", "+", "x", "m", "l">>} THEN TRUE
    ELSE IF Utf8Valid(s) THEN TRUE
    ELSE 100 * printable(s) >= 95 * Len(s)

\* a sniff whose threshold is strict
SniffSampleStrictShare(s, mime) ==
    IF Len(s) = 0 THEN TRUE
    ELSE IF \E i \in 1..Len(s) : s[i] = "NUL" THEN FALSE
    ELSE IF HasPrefix(mime, <<"t", "e", "x", "t", "/">>) THEN TRUE
    ELSE IF mime \in {<<"a", "p", "p", "l", "i", "c", "a", "t", "i", "o", "n", "/", "j", "s", "o", "n">>, <<"a", "p", "p", "l", "i", "c", "a", "t", "i", "o", "n", "/", "j", "a", "v", "a", "s", "c", "r", "i", "p", "t">>,
                      <<"a", "p", "p", "l", "i", "c", "a", "t", "i", "o", "n", "/", "x", "m", "l">>, <<"i", "m", "a", "g", "e", "/", "s", "v", "g", "+", "x", "m", "l">>} THEN TRUE
    ELSE IF Utf8Valid(s) THEN TRUE
    ELSE 100 * printable(s) > 95 * Len(s)

\* textdetect.go:136-168, s is the sample read and mime its detected type
SniffSample(s, mime) ==
    IF Len(s) = 0 THEN TRUE
    ELSE IF \E i \in 1..Len(s) : s[i] = "NUL" THEN FALSE
    ELSE IF HasPrefix(mime, <<"t", "e", "x", "t", "/">>) THEN TRUE
    ELSE IF mime \in {<<"a", "p", "p", "l", "i", "c", "a", "t", "i", "o", "n", "/", "j", "s", "o", "n">>, <<"a", "p", "p", "l", "i", "c", "a", "t", "i", "o", "n", "/", "j", "a", "v", "a", "s", "c", "r", "i", "p", "t">>,
                      <<"a", "p", "p", "l", "i", "c", "a", "t", "i", "o", "n", "/", "x", "m", "l">>, <<"i", "m", "a", "g", "e", "/", "s", "v", "g", "+", "x", "m", "l">>} THEN TRUE
    ELSE IF Utf8Valid(s) THEN TRUE
    ELSE 100 * printable(s) >= 95 * Len(s)

FirstBytes(data, n) == SubSeq(data, 1, IF Len(data) < n THEN Len(data) ELSE n)

\* a sniff that takes a file it cannot open for an empty one
isProbablyTextFileOpenIgnored(opened, data) ==
    SniffSample(FirstBytes(data, sniff), DetectContentType(FirstBytes(data, sniff)))

\* textdetect.go:126-169; data is the content of the file, opened is false
\* when os.Open fails
isProbablyTextFile(opened, data) ==
    IF ~opened THEN FALSE
    ELSE SniffSample(FirstBytes(data, sniff), DetectContentType(FirstBytes(data, sniff)))

\* textdetect.go:172-174
IsTextFile(path, opened, data) == hasTextyName(path) \/ isProbablyTextFile(opened, data)

\* main.go:176-196: the number of newline bytes; the error of os.Open is
\* reported by ok = FALSE
countLinesInFile(opened, data) ==
    [ok |-> opened, count |-> IF opened THEN Newlines(data) ELSE 0]

-----------------------------------------------------------------------------
(* The directory tree the tool is run on: the tree "build", with build     *)
(* directories at two depths, a log and a dot file; the tree "app", with   *)
(* src/app.js, node_modules/lib/index.js and dist/bundle.js; the tree      *)
(* "logs", with a directory old.log and a tracked file gone.txt that has   *)
(* been deleted from the working tree; the tree "loop", where a/up is a    *)
(* symbolic link to a.  Which of its directories hold a .gitignore, and    *)
(* what it says, is drawn in Init.                                         *)

Trees == {"build", "app", "logs", "loop"}

Root == <<"/", "r">>
GitignoreName == <<".", "g", "i", "t", "i", "g", "n", "o", "r", "e">>

TreeDirs ==
    IF tree = "app"
    THEN {Root, <<"/", "r", "/", "d", "i", "s", "t">>, <<"/", "r", "/", "n", "o", "d", "e", "_", "m", "o", "d", "u", "l", "e", "s">>, <<"/", "r", "/", "n", "o", "d", "e", "_", "m", "o", "d", "u", "l", "e", "s", "/", "l", "i", "b">>, <<"/", "r", "/", "s", "r", "c">>}
    ELSE IF tree = "logs"
    THEN {Root, <<"/", "r", "/", "o", "l", "d", ".", "l", "o", "g">>}
    ELSE IF tree = "loop"
    THEN {Root, <<"/", "r", "/", "a">>}
    ELSE {Root, <<"/", "r", "/", "b", "u", "i", "l", "d">>, <<"/", "r", "/", "s", "u", "b">>, <<"/", "r", "/", "s", "u", "b", "/", "b", "u", "i", "l", "d">>}

TreeFiles ==
    IF tree = "app"
    THEN {<<"/", "r", "/", "d", "i", "s", "t", "/", "b", "u", "n", "d", "l", "e", ".", "j", "s">>, <<"/", "r", "/", "n", "o", "d", "e", "_", "m", "o", "d", "u", "l", "e", "s", "/", "l", "i", "b", "/", "i", "n", "d", "e", "x", ".", "j", "s">>, <<"/", "r", "/", "s", "r", "c", "/", "a", "p", "p", ".", "j", "s">>}
    ELSE IF tree = "logs"
    THEN {<<"/", "r", "/", "o", "l", "d", ".", "l", "o", "g", "/", "a", ".", "t", "x", "t">>}
    ELSE IF tree = "loop"
    THEN {<<"/", "r", "/", "a", "/", "b", ".", "t", "x", "t">>}
    ELSE {<<"/", "r", "/", ".", "e", "n", "v">>, <<"/", "r", "/", "m", "a", "i", "n", ".", "g", "o">>, <<"/", "r", "/", "b", "u", "i", "l", "d", "/", "x", ".", "t", "x", "t">>, <<"/", "r", "/", "s", "u", "b", "/", "d", "e", "b", "u", "g", ".", "l", "o", "g">>,
          <<"/", "r", "/", "s", "u", "b", "/", "b", "u", "i", "l", "d", "/", "x", ".", "t", "x", "t">>}

\* os.ReadDir without the .gitignore: the names of a directory, sorted
StaticEntries(dir) ==
    CASE dir = Root /\ tree = "app" -> <<<<"d", "i", "s", "t">>, <<"n", "o", "d", "e", "_", "m", "o", "d", "u", "l", "e", "s">>, <<"s", "r", "c">>>>
      [] dir = <<"/", "r", "/", "d", "i", "s", "t">> -> <<<<"b", "u", "n", "d", "l", "e", ".", "j", "s">>>>
      [] dir = <<"/", "r", "/", "n", "o", "d", "e", "_", "m", "o", "d", "u", "l", "e", "s">> -> <<<<"l", "i", "b">>>>
      [] dir = <<"/", "r", "/", "n", "o", "d", "e", "_", "m", "o", "d", "u", "l", "e", "s", "/", "l", "i", "b">> -> <<<<"i", "n", "d", "e", "x", ".", "j", "s">>>>
      [] dir = <<"/", "r", "/", "s", "r", "c">> -> <<<<"a", "p", "p", ".", "j", "s">>>>
      [] dir = Root /\ tree = "logs" -> <<<<"o", "l", "d", ".", "l", "o", "g">>>>
      [] dir = <<"/", "r", "/", "o", "l", "d", ".", "l", "o", "g">> -> <<<<"a", ".", "t", "x", "t">>>>
      [] dir = Root /\ tree = "loop" -> <<<<"a">>>>
      [] dir = <<"/", "r", "/", "a">> -> <<<<"b", ".", "t", "x", "t">>, <<"u", "p">>>>
      [] dir = Root -> <<<<".", "e", "n", "v">>, <<"b", "u", "i", "l", "d">>, <<"m", "a", "i", "n", ".", "g", "o">>, <<"s", "u", "b">>>>
      [] dir = <<"/", "r", "/", "b", "u", "i", "l", "d">> -> <<<<"x", ".", "t", "x", "t">>>>
      [] dir = <<"/", "r", "/", "s", "u", "b">> -> <<<<"b", "u", "i", "l", "d">>, <<"d", "e", "b", "u", "g", ".", "l", "o", "g">>>>
      [] dir = <<"/", "r", "/", "s", "u", "b", "/", "b", "u", "i", "l", "d">> -> <<<<"x", ".", "t", "x", "t">>>>
      [] OTHER -> <<>>

\* the content of the files of the tree
StaticData(path) ==
    CASE path = <<"/", "r", "/", ".", "e", "n", "v">> -> <<"K", "E", "Y", "=", "1", "\n">>
      [] path = <<"/", "r", "/", "m", "a", "i", "n", ".", "g", "o">> -> <<"p", "a", "c", "k", "a", "g", "e", " ", "m", "a", "i", "n", "\n">>
      [] path = <<"/", "r", "/", "b", "u", "i", "l", "d", "/", "x", ".", "t", "x", "t">> -> <<"a", "\n", "b", "\n", "c">>
      [] path = <<"/", "r", "/", "s", "u", "b", "/", "b", "u", "i", "l", "d", "/", "x", ".", "t", "x", "t">> -> <<"a", "\n", "b", "\n", "c", "\n">>
      [] path = <<"/", "r", "/", "s", "u", "b", "/", "d", "e", "b", "u", "g", ".", "l", "o", "g">> -> <<"o", "k", "\n", "NUL", "x01", "\n">>
      [] path = <<"/", "r", "/", "d", "i", "s", "t", "/", "b", "u", "n", "d", "l", "e", ".", "j", "s">> -> <<"a", "\n", "b", "\n">>
      [] path = <<"/", "r", "/", "n", "o", "d", "e", "_", "m", "o", "d", "u", "l", "e", "s", "/", "l", "i", "b", "/", "i", "n", "d", "e", "x", ".", "j", "s">> -> <<"c", "\n">>
      [] path = <<"/", "r", "/", "s", "r", "c", "/", "a", "p", "p", ".", "j", "s">> -> <<"d", "\n", "e", "\n", "f", "\n">>
      [] path = <<"/", "r", "/", "o", "l", "d", ".", "l", "o", "g", "/", "a", ".", "t", "x", "t">> -> <<"g", "\n">>
      [] path = <<"/", "r", "/", "a", "/", "b", ".", "t", "x", "t">> -> <<"h", "\n">>
      [] OTHER -> <<>>

\* what the tool may be run on: the root, or one file
Targets == IF tree = "build" THEN {Root, <<"/", "r", "/", "s", "u", "b", "/", "d", "e", "b", "u", "g", ".", "l", "o", "g">>} ELSE {Root}

\* the files git ls-files reports for the root, when it works
TrackedFiles ==
    IF tree = "app"
    THEN <<<<"/", "r", "/", "d", "i", "s", "t", "/", "b", "u", "n", "d", "l", "e", ".", "j", "s">>, <<"/", "r", "/", "s", "r", "c", "/", "a", "p", "p", ".", "j", "s">>>>
    ELSE IF tree = "logs"
    THEN <<<<"/", "r", "/", "g", "o", "n", "e", ".", "t", "x", "t">>, <<"/", "r", "/", "o", "l", "d", ".", "l", "o", "g", "/", "a", ".", "t", "x", "t">>>>
    ELSE IF tree = "loop"
    THEN <<<<"/", "r", "/", "a", "/", "b", ".", "t", "x", "t">>>>
    ELSE <<<<"/", "r", "/", "b", "u", "i", "l", "d", "/", "x", ".", "t", "x", "t">>, <<"/", "r", "/", "m", "a", "i", "n", ".", "g", "o">>, <<"/", "r", "/", "s", "u", "b", "/", "b", "u", "i", "l", "d", "/", "x", ".", "t", "x", "t">>, <<"/", "r", "/", "s", "u", "b", "/", "d", "e", "b", "u", "g", ".", "l", "o", "g">>>>

\* the directories that may hold a .gitignore
IgnoreDirs == IF tree = "build" THEN {Root, <<"/", "r", "/", "s", "u", "b">>} ELSE {Root}

\* the lines a .gitignore is made of
Lines ==
    IF tree = "app" THEN {<<"s", "r", "c">>}
    ELSE IF tree = "logs" THEN {<<"*", ".", "l", "o", "g">>, <<"/", "o", "l", "d", ".", "l", "o", "g">>}
    ELSE IF tree = "loop" THEN {<<"u", "p">>}
    ELSE {<<"b", "u", "i", "l", "d", "/">>, <<"/", "b", "u", "i", "l", "d", "/">>, <<" ", "*", ".", "l", "o", "g", "\r">>, <<" ", "#", " ", "x">>}

\* the directories that may be unreadable
Unreadables == IF tree = "app" THEN {{}, {<<"/", "r", "/", "s", "r", "c">>}, {<<"/", "r", "/", "n", "o", "d", "e", "_", "m", "o", "d", "u", "l", "e", "s">>}} ELSE {{}}

RECURSIVE SeqsUpTo(_, _)
SeqsUpTo(S, n) ==
    IF n = 0 THEN {<<>>}
    ELSE LET shorter == SeqsUpTo(S, n - 1)
         IN  shorter \cup {Append(q, x) : q \in {t \in shorter : Len(t) = n - 1}, x \in S}

FileTexts == {JoinWith(ls, <<"\n">>) : ls \in SeqsUpTo(Lines, MaxLines)}

LineCount(text) == IF text = <<>> THEN 0 ELSE Len(Split(text, "\n"))

RECURSIVE TotalLines(_)
TotalLines(files) ==
    IF DOMAIN files = {} THEN 0
    ELSE LET d == CHOOSE x \in DOMAIN files : TRUE
         IN  LineCount(files[d]) + TotalLines([x \in DOMAIN files \ {d} |-> files[x]])

\* the .gitignore files of the tree: at most MaxLines lines in all
AllIgnoreFiles ==
    {files \in UNION {[S -> FileTexts] : S \in SUBSET IgnoreDirs} : TotalLines(files) <= MaxLines}

\* the symbolic links of the tree: in the tree "loop" the entry up of the
\* directory a points back to a
LinkPaths == IF tree = "loop" THEN {<<"/", "r", "/", "a", "/", "u", "p">>} ELSE {}

\* os.Readlink, made absolute
Readlink(link) == <<"/", "r", "/", "a">>

\* the symbolic links the kernel follows while it resolves one path, at most
MaxSymlinks == 2

\* the path no file has: the kernel gave up with ELOOP
ELoop == <<"ELOOP">>

\* every path of the tree below the root, the .gitignore files included
TreePaths ==
    (TreeDirs \ {Root}) \cup TreeFiles \cup LinkPaths
        \cup {Join(d, GitignoreName) : d \in IgnoreDirs}

\* path is root or lies below it
Under(path, root) == path = root \/ HasPrefix(path, root \o <<"/">>)

IsGitignore(path, files) == Base(path) = GitignoreName /\ Dir(path) \in DOMAIN files

\* the first symbolic link on the way to path
FirstLink(path) ==
    CHOOSE l \in LinkPaths :
        Under(path, l) /\ \A m \in LinkPaths : Under(path, m) => Len(l) <= Len(m)

\* path resolution of os.Stat, os.Open, os.ReadDir and os.ReadFile: every
\* symbolic link on the way is followed, hops of them at most
RECURSIVE Follow(_, _)
Follow(path, hops) ==
    IF \A l \in LinkPaths : ~Under(path, l) THEN path
    ELSE IF hops = 0 THEN ELoop
    ELSE Follow(Readlink(FirstLink(path))
                    \o SubSeq(path, Len(FirstLink(path)) + 1, Len(path)),
                hops - 1)

RealPath(path) == Follow(path, MaxSymlinks)

ExistsReal(real, files) == real \in TreeDirs \cup TreeFiles \/ IsGitignore(real, files)

\* os.Stat, os.Open: the path exists
Exists(path, files) == ExistsReal(RealPath(path), files)

\* main.go:154-160: os.Stat follows symbolic links
isDir(path) == RealPath(path) \in TreeDirs

\* os.DirEntry.IsDir: the type of the entry itself, a symbolic link is no
\* directory
EntryIsDir(path) == path \notin LinkPaths /\ isDir(path)

FileDataReal(real, files) ==
    IF IsGitignore(real, files) THEN files[Dir(real)] ELSE StaticData(real)

\* os.ReadFile
FileData(path, files) == FileDataReal(RealPath(path), files)

\* os.ReadDir: the names of the entries, sorted; ".env" sorts before ".gitignore"
ReadDir(dir, files) ==
    LET names  == StaticEntries(RealPath(dir))
        dots   == SelectSeq(names, LAMBDA n : n = <<".", "e", "n", "v">>)
        others == SelectSeq(names, LAMBDA n : n # <<".", "e", "n", "v">>)
    IN  dots \o (IF RealPath(dir) \in DOMAIN files THEN <<GitignoreName>> ELSE <<>>) \o others

\* a filter that hides nothing
getAllEntries(entries) == entries

\* main.go:244-253 and main.go:216: dot names are hidden, .gitignore is not
getNonHiddenEntries(entries) ==
    SelectSeq(entries, LAMBDA n : ~(HasPrefix(n, <<".">>) /\ n # GitignoreName))

-----------------------------------------------------------------------------
(* main.go: the rule store *)

\* a Go map read: a missing key yields the zero value and adds no entry
Lookup(store, dir) == IF dir \in DOMAIN store THEN store[dir] ELSE <<>>

\* main.go:44-51, the lines of one .gitignore that become rules
\* a trim that leaves the end of the line, a carriage return included
TrimAllLeftOnly(lines) == [i \in 1..Len(lines) |-> TrimLeft(lines[i])]

TrimAll(lines) == [i \in 1..Len(lines) |-> TrimSpace(lines[i])]

ParseRules(data) ==
    SelectSeq(TrimAll(Split(data, "\n")),
              LAMBDA line : ~(line = <<>> \/ HasPrefix(line, <<"#">>)))

\* main.go:36-39: WalkDir comes to d; it does not descend below a directory
\* it cannot read, and goes on with the next one
Walked(d, root) == \A a \in unreadable : ~(Under(a, root) /\ Under(d, a) /\ d # a)

\* main.go:35-56: every directory under root whose .gitignore can be read
\* appends its rules to the store; a directory that adds none gets no entry
RulesFound(d, root, files) ==
    IF d \in DOMAIN files /\ Under(d, root) /\ Walked(d, root) THEN ParseRules(files[d]) ELSE <<>>

loadGitignores(root, store, files) ==
    [d \in DOMAIN store \cup {x \in TreeDirs : RulesFound(x, root, files) # <<>>} |->
         Lookup(store, d) \o RulesFound(d, root, files)]

-----------------------------------------------------------------------------
(* main.go: the resolver.  isIgnored returns its verdict together with the *)
(* directories it looked up and the rules it tested, in order.             *)

\* main.go:70-78: the rules of one directory in declaration order, up to and
\* including the first that matches
Test(from, dir, pat, hit) == [from |-> from, dir |-> dir, pat |-> pat, hit |-> hit]

RECURSIVE TestRules(_, _, _)
TestRule(dir, relFromDir, pat, hit, rest) ==
    <<Test("rules", dir, pat, hit)>>
        \o (IF hit THEN <<>> ELSE TestRules(dir, relFromDir, rest))

\* a rule "!pattern" that, when pattern matches, rescues the path from the
\* rules that follow it in the directory
TestTrimmedWithNegation(dir, relFromDir, pat, rest) ==
    IF pat = <<>> \/ HasPrefix(pat, <<"#">>)
    THEN TestRules(dir, relFromDir, rest)
    ELSE IF HasPrefix(pat, <<"!">>) /\ MatchPattern(relFromDir, Tail(pat))
    THEN <<Test("rules", dir, pat, FALSE)>>
    ELSE TestRule(dir, relFromDir, pat, MatchPattern(relFromDir, pat), rest)

\* main.go:71-77: one rule of a directory, trimmed
TestTrimmed(dir, relFromDir, pat, rest) ==
    IF pat = <<>> \/ HasPrefix(pat, <<"#">>)
    THEN TestRules(dir, relFromDir, rest)
    ELSE TestRule(dir, relFromDir, pat, MatchPattern(relFromDir, pat), rest)

TestRules(dir, relFromDir, patterns) ==
    IF patterns = <<>> THEN <<>>
    ELSE TestTrimmed(dir, relFromDir, TrimSpace(Head(patterns)), Tail(patterns))

\* main.go:93-97: the default patterns, up to and including the first that matches
RECURSIVE TestDefaults(_, _, _)
TestDefault(root, relFromRoot, pat, hit, rest) ==
    <<Test("defaults", root, pat, hit)>>
        \o (IF hit THEN <<>> ELSE TestDefaults(root, relFromRoot, rest))

TestDefaults(root, relFromRoot, patterns) ==
    IF patterns = <<>> THEN <<>>
    ELSE TestDefault(root, relFromRoot, Head(patterns),
                     MatchPattern(relFromRoot, Head(patterns)), Tail(patterns))

Hit(tests) == tests # <<>> /\ tests[Len(tests)].hit

Found(tests, consulted) == [tests |-> tests, consulted |-> consulted]

Then(first, rest) ==
    Found(first.tests \o rest.tests, first.consulted \o rest.consulted)

\* main.go:65-88: the ascent from dir to root; tests are the tests of dir's rules
RECURSIVE Ascent(_, _, _, _)

\* an ascent that never leaves the directory of the path
AscentFromOwnDirOnly(abs, dir, root, store, tests) == Found(tests, <<dir>>)

\* an ascent that does not stop at the scan root
AscentFromPastRoot(abs, dir, root, store, tests) ==
    IF Hit(tests) \/ Dir(dir) = dir
    THEN Found(tests, <<dir>>)
    ELSE Then(Found(tests, <<dir>>), Ascent(abs, Dir(dir), root, store))

AscentFrom(abs, dir, root, store, tests) ==
    IF Hit(tests) \/ dir = root \/ Dir(dir) = dir
    THEN Found(tests, <<dir>>)
    ELSE Then(Found(tests, <<dir>>), Ascent(abs, Dir(dir), root, store))

Ascent(abs, dir, root, store) ==
    AscentFrom(abs, dir, root, store,
               TestRules(dir, ToSlash(Rel(dir, abs)), Lookup(store, dir)))

Verdict(ignored, found) ==
    [ignored |-> ignored, tests |-> found.tests, consulted |-> found.consulted]

\* main.go:90-99: the default patterns, tested when the ascent found no match
WithDefaults(asc, dfl) ==
    IF Hit(asc.tests) THEN Verdict(TRUE, asc)
    ELSE Verdict(Hit(dfl), Then(asc, Found(dfl, <<>>)))

isIgnoredAbs(abs, root, store) ==
    WithDefaults(Ascent(abs, Dir(abs), root, store),
                 TestDefaults(root, ToSlash(Rel(root, abs)), DefaultIgnorePatterns))

\* main.go:59-100
isIgnored(path, root, store) == isIgnoredAbs(Clean(Abs(path)), root, store)

NoCall == [path |-> <<>>, root |-> <<>>, ignored |-> FALSE, tests |-> <<>>, consulted |-> <<>>]

\* the variables a specification does not use
IdleMatcher == rel = <<>> /\ pattern = <<>> /\ matched = "none"

IdleText ==
    /\ textPath = <<>> /\ textData = <<>> /\ textOpened = FALSE
    /\ isText = "none" /\ lineResult = "none"

IdleRun ==
    /\ target = <<>> /\ folderPath = <<>> /\ filePaths = <<>>
    /\ stack = <<>> /\ childPaths = <<>> /\ log = <<>> /\ loads = 0
    /\ shown = <<>> /\ fileCount = 0 /\ lineCount = 0
    /\ git = "unasked" /\ strategy = "none" /\ stderr = <<>>

IdleTree == tree = "build" /\ unreadable = {}

Called(path, root, res) ==
    [path |-> path, root |-> root, ignored |-> res.ignored,
     tests |-> res.tests, consulted |-> res.consulted]

CallOf(path, root, store) == Called(path, root, isIgnored(path, root, store))

-----------------------------------------------------------------------------
(* The resolver on its own: the rules are loaded for Root, then isIgnored  *)
(* is asked about one path of the tree.                                    *)

InitResolve ==
    /\ pc = "start"
    /\ tree \in Trees
    /\ unreadable = {}
    /\ ignoreFiles \in AllIgnoreFiles
    /\ gitignoreRules = <<>>
    /\ call = NoCall
    /\ IdleMatcher
    /\ IdleText
    /\ IdleRun

ResolveLoad ==
    /\ pc = "start"
    /\ gitignoreRules' = loadGitignores(Root, gitignoreRules, ignoreFiles)
    /\ pc' = "loaded"
    /\ UNCHANGED <<envVars, matcherVars, textVars, runVars, ignoreFiles, call>>

ResolveCall ==
    /\ pc = "loaded"
    /\ \E path \in TreePaths : call' = CallOf(path, Root, gitignoreRules)
    /\ pc' = "asked"
    /\ UNCHANGED <<envVars, matcherVars, textVars, runVars, ignoreFiles, gitignoreRules>>

NextResolve == ResolveLoad \/ ResolveCall

SpecResolve == InitResolve /\ [][NextResolve]_vars

-----------------------------------------------------------------------------
(* main.go:370-493, one run of output: the rules are loaded, the structure *)
(* is printed, the file contents are printed, the summary is counted.  One *)
(* action is one iteration of the loop the run is in; stack holds the      *)
(* entries the loops and their recursive calls have still to visit, the    *)
(* next one first.                                                         *)

Items(names, dir, stage) ==
    [i \in 1..Len(names) |-> [path |-> Join(dir, names[i]), stage |-> stage]]

ItemsOf(paths, stage) == [i \in 1..Len(paths) |-> [path |-> paths[i], stage |-> stage]]

\* the entries a walk visits in dir
Visible(dir, stage) == Items(getNonHiddenEntries(ReadDir(dir, ignoreFiles)), dir, stage)

\* main.go:166-173: readEntries panics when os.ReadDir fails
Panics(dir) == dir \in unreadable

\* a choice that takes the git strategy as soon as the root has a .git
StrategyGitWheneverMetadata(single, found) ==
    IF single THEN "file"
    ELSE IF found # "none" THEN "git"
    ELSE "walk"

\* main.go:460-489: the strategy of the summary; single tells that the target
\* is one file, found is what the run found out about git
Strategy(single, found) ==
    IF single THEN "file"
    ELSE IF found = "works" THEN "git"
    ELSE "walk"

Logged(op, path, result) == [op |-> op, path |-> path, result |-> result]

\* a store that gains an empty entry for every directory a call looks up
StoreWithLookupsInserted(store, consulted) ==
    [d \in DOMAIN store \cup {consulted[i] : i \in 1..Len(consulted)} |-> Lookup(store, d)]

\* a store that loses the rules of the last directory a call looked up
StoreWithConsultedDropped(store, consulted) ==
    [d \in DOMAIN store \ {consulted[Len(consulted)]} |-> store[d]]

\* main.go:66: isIgnored only reads the store
StoreAfterLookups(store, consulted) == store

\* one isIgnored(path, folderPath) call of the run
Resolve(path) ==
    /\ call' = CallOf(path, folderPath, gitignoreRules)
    /\ gitignoreRules' = StoreAfterLookups(gitignoreRules, call'.consulted)

TextFile(path) == IsTextFile(path, Exists(path, ignoreFiles), FileData(path, ignoreFiles))

LinesOf(path) == countLinesInFile(Exists(path, ignoreFiles), FileData(path, ignoreFiles))

\* a per-file logic that counts a file whatever isIgnored said
CountedWhateverTheVerdict(path, ignored) == TextFile(path) /\ LinesOf(path).ok

\* a per-file logic that counts a text file also when its lines cannot be read
CountedThoughUnread(path, ignored) == ~ignored /\ TextFile(path)

\* main.go:136-147 and 203, 229-238: the file is counted
Counted(path, ignored) == ~ignored /\ TextFile(path) /\ LinesOf(path).ok

\* the calls the per-file logic makes for path, in order
CountingCalls(path, ignored) ==
    <<Logged("isIgnored", path, ignored)>>
        \o (IF ignored THEN <<>>
            ELSE <<Logged("IsTextFile", path, TextFile(path))>>
                     \o (IF TextFile(path)
                         THEN <<Logged("countLinesInFile", path, LinesOf(path).ok)>>
                         ELSE <<>>))

\* the lines the .gitignore files of a whole run hold, at most
MaxRunLines == 2

\* the .gitignore files of the tree a run is started on
RunIgnoreFiles == {files \in AllIgnoreFiles : TotalLines(files) <= MaxRunLines}

Init ==
    /\ pc = "start"
    /\ tree \in Trees
    /\ unreadable \in Unreadables
    /\ target \in Targets
    /\ ignoreFiles \in RunIgnoreFiles
    /\ gitignoreRules = <<>>
    /\ call = NoCall
    /\ folderPath = <<>> /\ filePaths = <<>>
    /\ stack = <<>> /\ childPaths = <<>> /\ log = <<>> /\ loads = 0
    /\ shown = <<>> /\ fileCount = 0 /\ lineCount = 0
    /\ git = "unasked" /\ strategy = "none" /\ stderr = <<>>
    /\ IdleMatcher
    /\ IdleText

\* main.go:383-391
Load ==
    /\ pc = "start"
    /\ LET folder == IF isDir(target) THEN target ELSE Dir(target)
       IN  /\ folderPath' = folder
           /\ filePaths' = IF isDir(target) THEN <<>> ELSE <<target>>
           /\ gitignoreRules' = loadGitignores(folder, gitignoreRules, ignoreFiles)
    /\ loads' = loads + 1
    /\ pc' = "loaded"
    /\ UNCHANGED <<envVars, summaryVars, matcherVars, textVars, ignoreFiles, call, target, stack, childPaths, log, shown,
                   fileCount, lineCount>>

\* main.go:433 and 257-259
BeginStructure ==
    /\ pc = "loaded"
    /\ stack' = IF Panics(folderPath) THEN <<>> ELSE Visible(folderPath, "show")
    /\ pc' = IF Panics(folderPath) THEN "panic" ELSE "structure"
    /\ UNCHANGED <<envVars, summaryVars, matcherVars, textVars, ignoreFiles, gitignoreRules, call, target, folderPath,
                   filePaths, childPaths, log, loads, shown, fileCount, lineCount>>

\* main.go:261-278, one entry of printStructure
PrintStructure ==
    /\ pc = "structure" /\ stack # <<>>
    /\ LET path == Head(stack).path
       IN  /\ Resolve(path)
           /\ log' = Append(log, Logged("isIgnored", path, call'.ignored))
           /\ stack' = IF ~call'.ignored /\ EntryIsDir(path) /\ ~Panics(path)
                       THEN Visible(path, "show") \o Tail(stack)
                       ELSE Tail(stack)
           /\ pc' = IF ~call'.ignored /\ EntryIsDir(path) /\ Panics(path) THEN "panic" ELSE pc
    /\ UNCHANGED <<envVars, summaryVars, matcherVars, textVars, ignoreFiles, target, folderPath, filePaths, childPaths,
                   loads, shown, fileCount, lineCount>>

\* main.go:436-440
BeginFiles ==
    /\ pc = "structure" /\ stack = <<>>
    /\ stack' = IF Len(filePaths) # 0 THEN ItemsOf(filePaths, "print")
                ELSE IF Panics(folderPath) THEN <<>>
                ELSE Visible(folderPath, "print")
    /\ pc' = IF Len(filePaths) = 0 /\ Panics(folderPath) THEN "panic" ELSE "files"
    /\ UNCHANGED <<envVars, summaryVars, matcherVars, textVars, ignoreFiles, gitignoreRules, call, target, folderPath,
                   filePaths, childPaths, log, loads, shown, fileCount, lineCount>>

\* main.go:292-335 and 440-455, one entry of printFiles or one target file;
\* the run has no --include filter and prints to standard output
PrintFiles ==
    /\ pc = "files" /\ stack # <<>>
    /\ LET path  == Head(stack).path
           valid == /\ Exists(path, ignoreFiles) /\ ~isDir(path)
                    /\ Utf8Valid(FileData(path, ignoreFiles))
           file  == ~call'.ignored /\ ~EntryIsDir(path)
       IN  /\ Resolve(path)
           /\ log' = log \o <<Logged("isIgnored", path, call'.ignored)>>
                         \o (IF file /\ valid
                             THEN <<Logged("IsTextFile", path, TextFile(path))>>
                             ELSE <<>>)
           /\ stack' = IF ~call'.ignored /\ EntryIsDir(path) /\ ~Panics(path)
                       THEN Visible(path, "print") \o Tail(stack)
                       ELSE Tail(stack)
           /\ pc' = IF ~call'.ignored /\ EntryIsDir(path) /\ Panics(path) THEN "panic" ELSE pc
           /\ shown' = IF file /\ valid /\ TextFile(path) THEN Append(shown, path) ELSE shown
    /\ UNCHANGED <<envVars, summaryVars, matcherVars, textVars, ignoreFiles, target, folderPath, filePaths, childPaths,
                   loads, fileCount, lineCount>>

\* what the run may find out about git: no .git in the root, a .git and a
\* git ls-files that fails, a .git and a git ls-files that succeeds
GitFindings == {"none", "fails", "works"}

\* main.go:460-463 and 127: the root has a .git and git ls-files works
BeginSummaryGit ==
    /\ pc = "files" /\ stack = <<>>
    /\ \E found \in GitFindings :
           /\ Strategy(Len(filePaths) # 0, found) = "git"
           /\ git' = found
    /\ strategy' = "git"
    /\ stack' = ItemsOf(TrackedFiles, "tracked")
    /\ pc' = "git"
    /\ UNCHANGED <<envVars, stderr, matcherVars, textVars, ignoreFiles, gitignoreRules, call,
                   target, folderPath, filePaths, childPaths, log, loads, shown, fileCount,
                   lineCount>>

\* main.go:464-466 and 476-478: the root has no .git, or git ls-files fails
BeginSummaryWalk ==
    /\ pc = "files" /\ stack = <<>>
    /\ \E found \in GitFindings :
           /\ Strategy(Len(filePaths) # 0, found) = "walk"
           /\ git' = found
    /\ strategy' = "walk"
    /\ stack' = IF Panics(folderPath) THEN <<>> ELSE Visible(folderPath, "top")
    /\ pc' = IF Panics(folderPath) THEN "panic" ELSE "filter"
    /\ UNCHANGED <<envVars, stderr, matcherVars, textVars, ignoreFiles, gitignoreRules, call,
                   target, folderPath, filePaths, childPaths, log, loads, shown, fileCount,
                   lineCount>>

\* main.go:488-489: the target is one file, git is not asked
BeginSummaryFile ==
    /\ pc = "files" /\ stack = <<>>
    /\ Strategy(Len(filePaths) # 0, git) = "file"
    /\ strategy' = "file"
    /\ stack' = ItemsOf(filePaths, "count")
    /\ pc' = "count"
    /\ UNCHANGED <<envVars, git, stderr, matcherVars, textVars, ignoreFiles, gitignoreRules,
                   call, target, folderPath, filePaths, childPaths, log, loads, shown,
                   fileCount, lineCount>>

\* main.go:135-148, one tracked file of countFilesAndLinesGit
CountGit ==
    /\ pc = "git" /\ stack # <<>>
    /\ LET path == Head(stack).path
       IN  /\ Resolve(path)
           /\ log' = log \o CountingCalls(path, call'.ignored)
           /\ fileCount' = IF Counted(path, call'.ignored) THEN fileCount + 1 ELSE fileCount
           /\ lineCount' = IF Counted(path, call'.ignored) THEN lineCount + LinesOf(path).count
                           ELSE lineCount
    /\ stack' = Tail(stack)
    /\ UNCHANGED <<envVars, summaryVars, pc, matcherVars, textVars, ignoreFiles, target, folderPath, filePaths, childPaths,
                   loads, shown>>

\* main.go:467-473 and 479-485, one top-level entry
FilterTop ==
    /\ pc = "filter" /\ stack # <<>>
    /\ LET path == Head(stack).path
       IN  /\ Resolve(path)
           /\ log' = Append(log, Logged("isIgnored", path, call'.ignored))
           /\ childPaths' = IF call'.ignored THEN childPaths ELSE Append(childPaths, path)
    /\ stack' = Tail(stack)
    /\ UNCHANGED <<envVars, summaryVars, pc, matcherVars, textVars, ignoreFiles, target, folderPath, filePaths, loads,
                   shown, fileCount, lineCount>>

\* main.go:474 and 486
BeginCount ==
    /\ pc = "filter" /\ stack = <<>>
    /\ stack' = ItemsOf(childPaths, "count")
    /\ pc' = "count"
    /\ UNCHANGED <<envVars, summaryVars, matcherVars, textVars, ignoreFiles, gitignoreRules, call, target, folderPath,
                   filePaths, childPaths, log, loads, shown, fileCount, lineCount>>

\* main.go:214-226, one entry of a directory countFilesAndLines has read
CountEntry ==
    /\ pc = "count" /\ stack # <<>> /\ Head(stack).stage = "entry"
    /\ LET path == Head(stack).path
       IN  /\ Resolve(path)
           /\ log' = Append(log, Logged("isIgnored", path, call'.ignored))
           /\ stack' = IF call'.ignored THEN Tail(stack)
                       ELSE <<[path |-> path, stage |-> "count"]>> \o Tail(stack)
    /\ UNCHANGED <<envVars, summaryVars, pc, matcherVars, textVars, ignoreFiles, target, folderPath, filePaths, childPaths,
                   loads, shown, fileCount, lineCount>>

\* main.go:202-240, one path of countFilesAndLines
CountPath ==
    /\ pc = "count" /\ stack # <<>> /\ Head(stack).stage = "count"
    /\ LET path == Head(stack).path
           dir  == ~call'.ignored /\ isDir(path)
           file == Counted(path, call'.ignored) /\ ~isDir(path)
           read == path \notin unreadable
       IN  /\ Resolve(path)
           /\ log' = IF dir
                     THEN log \o <<Logged("isIgnored", path, FALSE), Logged("os.ReadDir", path, read)>>
                     ELSE log \o CountingCalls(path, call'.ignored)
           /\ stack' = IF dir /\ read THEN Visible(path, "entry") \o Tail(stack) ELSE Tail(stack)
           /\ stderr' = IF dir /\ ~read
                        THEN Append(stderr, <<"Error reading dir", path>>)
                        ELSE IF ~dir /\ ~call'.ignored /\ TextFile(path) /\ ~LinesOf(path).ok
                        THEN Append(stderr, <<"Error counting lines", path>>)
                        ELSE stderr
           /\ fileCount' = IF file THEN fileCount + 1 ELSE fileCount
           /\ lineCount' = IF file THEN lineCount + LinesOf(path).count ELSE lineCount
    /\ UNCHANGED <<envVars, git, strategy, pc, matcherVars, textVars, ignoreFiles, target, folderPath, filePaths, childPaths,
                   loads, shown>>

\* main.go:492, the summary is printed
Finish ==
    /\ pc \in {"git", "count"} /\ stack = <<>>
    /\ pc' = "done"
    /\ UNCHANGED <<envVars, summaryVars, matcherVars, textVars, ignoreFiles, gitignoreRules, call, target, folderPath,
                   filePaths, stack, childPaths, log, loads, shown, fileCount, lineCount>>

Next ==
    \/ Load
    \/ BeginStructure
    \/ PrintStructure
    \/ BeginFiles
    \/ PrintFiles
    \/ BeginSummaryGit
    \/ BeginSummaryWalk
    \/ BeginSummaryFile
    \/ CountGit
    \/ FilterTop
    \/ BeginCount
    \/ CountEntry
    \/ CountPath
    \/ Finish

Spec == Init /\ [][Next]_vars

\* main.go:458-492, the steps of output() from the choice of the strategy to
\* the printed summary
Summarise ==
    \/ BeginSummaryGit
    \/ BeginSummaryWalk
    \/ BeginSummaryFile
    \/ CountGit
    \/ FilterTop
    \/ BeginCount
    \/ CountEntry
    \/ CountPath
    \/ Finish

\* the guards of Summarise: output() has a summary step to take
Summarising ==
    \/ pc = "files" /\ stack = <<>>
    \/ pc \in {"git", "filter", "count"}

\* the run is one sequential process: once it computes the summary it takes
\* its next step as long as it has one. This is WF_vars(Summarise), with
\* ENABLED <<Summarise>>_vars written as the guards of Summarise.
SummaryProceeds == []<>(~Summarising) \/ []<><<Summarise>>_vars

FairSpec == Spec /\ SummaryProceeds

-----------------------------------------------------------------------------
(* The matcher on its own: every relative path and pattern within the      *)
(* bounds, then one call of MatchPattern.                                  *)

InitMatch ==
    /\ pc = "match"
    /\ rel \in StringsUpTo(MaxRelLen)
    /\ pattern \in StringsUpTo(MaxPatLen)
    /\ matched = "none"
    /\ ignoreFiles = <<>> /\ gitignoreRules = <<>> /\ call = NoCall
    /\ IdleTree
    /\ IdleRun
    /\ IdleText

CallMatchPattern ==
    /\ pc = "match"
    /\ matched' = MatchPattern(rel, pattern)
    /\ pc' = "matched"
    /\ UNCHANGED <<envVars, rel, pattern, textVars, ignoreFiles, gitignoreRules, call, runVars>>

NextMatch == CallMatchPattern

SpecMatch == InitMatch /\ [][NextMatch]_vars

-----------------------------------------------------------------------------
(* The text classifier and the line counter on their own: a path, whether  *)
(* it can be opened and what it holds, then one call of IsTextFile or of   *)
(* countLinesInFile.                                                       *)

MaxDataLen == 3

\* the bytes contents are built from: a letter, a newline, 0x00, 0x01, 0xFF
Bytes == {"a", "\n", "NUL", "x01", "xFF"}

\* n letters
Fill(n) == [i \in 1..n |-> "a"]

\* contents longer than MaxDataLen: the texts of the line counter, samples on
\* both sides of the 95% threshold, and contents on both sides of the sniff
\* length
LongContents ==
    {<<"h", "e", "l", "l", "o", "\n", "w", "o", "r", "l", "d", "\n">>, <<"a", "\n", "b", "\n", "c">>, <<"a", "\n", "b", "\n", "c", "\n">>,
     Fill(37) \o <<"x01", "xFF">>, Fill(38) \o <<"x01", "xFF">>,
     Fill(sniff - 1) \o <<"NUL">>, Fill(sniff) \o <<"NUL">>,
     Fill(sniff) \o <<"x01", "xFF">>}

Contents == SeqsUpTo(Bytes, MaxDataLen) \cup LongContents

\* paths with a text extension, a text filename, and neither
TextPaths == {<<"/", "r", "/", "b", "l", "o", "b">>, <<"/", "r", "/", "x", ".", "b", "i", "n">>, <<"/", "r", "/", "a", ".", "t", "x", "t">>, <<"/", "r", "/", "A", ".", "G", "O">>, <<"/", "r", "/", "M", "a", "k", "e", "f", "i", "l", "e">>}

InitText ==
    /\ pc = "text"
    /\ textPath \in TextPaths
    /\ textOpened \in BOOLEAN
    /\ textData \in (IF textOpened THEN Contents ELSE {<<>>})
    /\ isText = "none" /\ lineResult = "none"
    /\ ignoreFiles = <<>> /\ gitignoreRules = <<>> /\ call = NoCall
    /\ IdleTree
    /\ IdleMatcher
    /\ IdleRun

\* textdetect.go:172-174; opens tells whether the call came to os.Open
CallIsTextFile ==
    /\ pc = "text"
    /\ isText' = [text  |-> IsTextFile(textPath, textOpened, textData),
                  opens |-> ~hasTextyName(textPath)]
    /\ pc' = "classified"
    /\ UNCHANGED <<envVars, matcherVars, runVars, textPath, textData, textOpened, lineResult,
                   ignoreFiles, gitignoreRules, call>>

\* main.go:176-196
CallCountLinesInFile ==
    /\ pc = "text"
    /\ lineResult' = countLinesInFile(textOpened, textData)
    /\ pc' = "lines"
    /\ UNCHANGED <<envVars, matcherVars, runVars, textPath, textData, textOpened, isText,
                   ignoreFiles, gitignoreRules, call>>

NextText == CallIsTextFile \/ CallCountLinesInFile

SpecText == InitText /\ [][NextText]_vars

-----------------------------------------------------------------------------
(* Claims about the matcher, checked under SpecMatch *)

SegmentsOf(s) == {Split(s, "/")[i] : i \in 1..Len(Split(s, "/"))}

Slash == <<"/">>
StarDot == <<"*", ".">>

\* the pattern without one leading and one trailing slash
DirNameOf(pat) == TrimSuffix(IF HasPrefix(pat, Slash) THEN Tail(pat) ELSE pat, Slash)

Matched == pc = "matched"

\* C4: for a pattern ending in "/" whose name dir is not empty, an anchored
\* pattern matches exactly rel = dir and rel under dir/; an unanchored one
\* matches exactly when rel = dir, ends with /dir, starts with dir/ or
\* contains /dir/, which for a dir of one segment is exactly "dir is a
\* complete segment of rel".
C4_DirectoryRule ==
    (Matched /\ HasSuffix(pattern, Slash) /\ DirNameOf(pattern) # <<>>) =>
        LET dir == DirNameOf(pattern)
        IN  IF HasPrefix(pattern, Slash)
            THEN matched = (rel = dir \/ HasPrefix(rel, dir \o Slash))
            ELSE /\ matched = (\/ rel = dir
                               \/ HasSuffix(rel, Slash \o dir)
                               \/ HasPrefix(rel, dir \o Slash)
                               \/ Contains(rel, Slash \o dir \o Slash))
                 /\ ~Contains(dir, Slash) => (matched = (dir \in SegmentsOf(rel)))

\* an anchored directory rule has refused its name below a subdirectory
C4_Witness ==
    /\ Matched
    /\ pattern = <<"/", "a", "/">>
    /\ rel = <<".", "/", "a", "/", "a">>
    /\ matched = FALSE

\* C5 as claimed: every pattern "*." + ext matches exactly the paths that
\* end with "." + ext.
C5_AsClaimed ==
    (Matched /\ HasPrefix(pattern, StarDot)) => (matched = HasSuffix(rel, Tail(pattern)))

\* C5 amended: every pattern "*." + ext that does not end in "/" matches
\* exactly the paths that end with "." + ext, at any depth.
C5_ExtensionRule ==
    (Matched /\ HasPrefix(pattern, StarDot) /\ ~HasSuffix(pattern, Slash)) =>
        (matched = HasSuffix(rel, Tail(pattern)))

\* "*.a" has matched a nested file a/a.a
C5_Witness ==
    /\ Matched
    /\ pattern = <<"*", ".", "a">>
    /\ rel = <<"a", "/", "a", ".", "a">>
    /\ matched = TRUE

UnanchoredPlain(pat) ==
    /\ pat # <<>>
    /\ ~HasPrefix(pat, Slash)
    /\ ~HasSuffix(pat, Slash)
    /\ ~HasPrefix(pat, StarDot)

\* C6: an unanchored plain name matches whenever it is a complete segment of
\* rel: the whole path, the first, a middle or the last segment.
C6_PlainNameAnySegment ==
    (Matched /\ UnanchoredPlain(pattern) /\ pattern \in SegmentsOf(rel)) => (matched = TRUE)

\* C7: the shape is decided on the pattern as written, so every pattern with
\* a leading "/" and no trailing "/" matches exactly rel = stripped pattern
\* and rel under stripped pattern/, never the same name inside a
\* subdirectory.
C7_AnchoredPlainAsWritten ==
    (Matched /\ HasPrefix(pattern, Slash) /\ ~HasSuffix(pattern, Slash)
            /\ ~HasPrefix(pattern, StarDot)) =>
        (matched = (rel = Tail(pattern) \/ HasPrefix(rel, Tail(pattern) \o Slash)))

\* a relative path, as filepath.Rel returns one: not empty, not rooted
RelativePath(r) == r # <<>> /\ ~HasPrefix(r, Slash)

\* C24: a pattern made of slashes only, "/" or "//", matches no relative
\* path; "//", whose directory name is empty, matches no string at all.
C24_BareSlashMatchesNoRelativePath ==
    /\ (Matched /\ pattern = <<"/", "/">>) => (matched = FALSE)
    /\ (Matched /\ pattern = <<"/">> /\ RelativePath(rel)) => (matched = FALSE)

\* the bare "/" has refused a path of two segments
C24_Witness ==
    /\ Matched
    /\ pattern = <<"/">>
    /\ rel = <<"a", "/", "a">>
    /\ matched = FALSE

-----------------------------------------------------------------------------
(* Claims about the resolver, checked under SpecResolve *)

Asked == pc = "asked"

\* the directories from the parent of path up to root
ChainDirs(path, root) == {d \in TreeDirs : Under(d, root) /\ Under(path, d) /\ d # path}

\* the same directories, the closest to path first
RECURSIVE ClosestFirst(_)
ClosestFirst(S) ==
    IF S = {} THEN <<>>
    ELSE LET d == CHOOSE x \in S : \A y \in S : Len(y) <= Len(x)
         IN  <<d>> \o ClosestFirst(S \ {d})

\* path expressed relative to the directory d above it
Below(d, path) == SubSeq(path, Len(d) + 2, Len(path))

IsPrefixOf(a, b) == Len(a) <= Len(b) /\ SubSeq(b, 1, Len(a)) = a

SomeRuleMatches(path, root, store) ==
    \E d \in ChainDirs(path, root) :
        \E i \in 1..Len(Lookup(store, d)) : MatchPattern(Below(d, path), Lookup(store, d)[i])

SomeDefaultMatches(path, root) ==
    \E i \in 1..Len(DefaultIgnorePatterns) :
        MatchPattern(Below(root, path), DefaultIgnorePatterns[i])

\* C1: isIgnored(p, R) is true if and only if a rule declared in a
\* directory between parent(p) and R matches p relative to that directory,
\* or a default pattern matches p relative to R.
C1_IgnoredIffSomeRuleMatches ==
    Asked =>
        (call.ignored = (\/ SomeRuleMatches(call.path, call.root, gitignoreRules)
                         \/ SomeDefaultMatches(call.path, call.root)))

\* sub/debug.log has been ignored by the root's rule although its own
\* directory declares a rule, which does not match
C1_Witness ==
    /\ Asked
    /\ call.path = <<"/", "r", "/", "s", "u", "b", "/", "d", "e", "b", "u", "g", ".", "l", "o", "g">>
    /\ Lookup(gitignoreRules, <<"/", "r", "/", "s", "u", "b">>) = <<<<"/", "b", "u", "i", "l", "d", "/">>>>
    /\ Lookup(gitignoreRules, Root) = <<<<"*", ".", "l", "o", "g">>>>
    /\ call.ignored
    /\ call.tests[Len(call.tests)] =
           [from |-> "rules", dir |-> Root, pat |-> <<"*", ".", "l", "o", "g">>, hit |-> TRUE]

RECURSIVE RulesInOrder(_, _)
RulesInOrder(dirs, store) ==
    IF dirs = <<>> THEN <<>>
    ELSE [i \in 1..Len(Lookup(store, Head(dirs))) |->
              [from |-> "rules", dir |-> Head(dirs), pat |-> Lookup(store, Head(dirs))[i]]]
             \o RulesInOrder(Tail(dirs), store)

\* what a call may test, in the order it may test it
TestOrder(path, root, store) ==
    RulesInOrder(ClosestFirst(ChainDirs(path, root)), store)
        \o [i \in 1..Len(DefaultIgnorePatterns) |->
                [from |-> "defaults", dir |-> root, pat |-> DefaultIgnorePatterns[i]]]

Tested(tests) ==
    [i \in 1..Len(tests) |-> [from |-> tests[i].from, dir |-> tests[i].dir, pat |-> tests[i].pat]]

\* C2: one call tests the rules of parent(p) in declaration order, then
\* those of each further ancestor up to R, then the defaults; it stops at the
\* first rule that matches, and it looks up no directory above R.
C2_ClosestFirstThenStop ==
    Asked =>
        /\ IsPrefixOf(Tested(call.tests), TestOrder(call.path, call.root, gitignoreRules))
        /\ \A i \in 1..(Len(call.tests) - 1) : ~call.tests[i].hit
        /\ call.ignored = Hit(call.tests)
        /\ ~call.ignored =>
               Len(call.tests) = Len(TestOrder(call.path, call.root, gitignoreRules))
        /\ IsPrefixOf(call.consulted, ClosestFirst(ChainDirs(call.path, call.root)))
        /\ \A i \in 1..Len(call.consulted) : Under(call.consulted[i], call.root)
        /\ call.tests # <<>> /\ call.tests[Len(call.tests)].from = "rules" =>
               call.consulted[Len(call.consulted)] = call.tests[Len(call.tests)].dir

\* the second rule of sub has matched sub/debug.log, and the root's rule,
\* which matches it too, was never tested
C2_Witness ==
    /\ Asked
    /\ call.path = <<"/", "r", "/", "s", "u", "b", "/", "d", "e", "b", "u", "g", ".", "l", "o", "g">>
    /\ Lookup(gitignoreRules, Root) = <<<<"*", ".", "l", "o", "g">>>>
    /\ Tested(call.tests) =
           << [from |-> "rules", dir |-> <<"/", "r", "/", "s", "u", "b">>, pat |-> <<"b", "u", "i", "l", "d", "/">>],
              [from |-> "rules", dir |-> <<"/", "r", "/", "s", "u", "b">>, pat |-> <<"*", ".", "l", "o", "g">>] >>
    /\ call.consulted = <<<<"/", "r", "/", "s", "u", "b">>>>
    /\ call.ignored

OnlyRule(store, pat) == DOMAIN store = {Root} /\ store[Root] = <<pat>>

LastTest == call.tests[Len(call.tests)]

\* C3 as claimed: with "build/" alone at R, R/build, R/build/x.txt and
\* R/sub/build/x.txt are ignored; with "/build/" alone at R, R/build and its
\* descendants are ignored and R/sub/build and R/sub/build/x.txt are not.
C3_AsClaimed ==
    Asked =>
        /\ (/\ OnlyRule(gitignoreRules, <<"b", "u", "i", "l", "d", "/">>)
            /\ call.path \in {<<"/", "r", "/", "b", "u", "i", "l", "d">>, <<"/", "r", "/", "b", "u", "i", "l", "d", "/", "x", ".", "t", "x", "t">>, <<"/", "r", "/", "s", "u", "b", "/", "b", "u", "i", "l", "d", "/", "x", ".", "t", "x", "t">>})
               => call.ignored
        /\ (/\ OnlyRule(gitignoreRules, <<"/", "b", "u", "i", "l", "d", "/">>)
            /\ call.path \in {<<"/", "r", "/", "b", "u", "i", "l", "d">>, <<"/", "r", "/", "b", "u", "i", "l", "d", "/", "x", ".", "t", "x", "t">>})
               => call.ignored
        /\ (/\ OnlyRule(gitignoreRules, <<"/", "b", "u", "i", "l", "d", "/">>)
            /\ call.path \in {<<"/", "r", "/", "s", "u", "b", "/", "b", "u", "i", "l", "d">>, <<"/", "r", "/", "s", "u", "b", "/", "b", "u", "i", "l", "d", "/", "x", ".", "t", "x", "t">>})
               => ~call.ignored

\* C3 amended: with "build/" alone at R, R/build, R/build/x.txt and
\* R/sub/build/x.txt are ignored by that rule; with "/build/" alone at R,
\* R/build and its descendants are ignored by that rule, and the rule does
\* not match R/sub/build or R/sub/build/x.txt, which are ignored all the same
\* because the default pattern "build/" matches them.
C3_BuildRules ==
    Asked =>
        /\ (/\ OnlyRule(gitignoreRules, <<"b", "u", "i", "l", "d", "/">>)
            /\ call.path \in {<<"/", "r", "/", "b", "u", "i", "l", "d">>, <<"/", "r", "/", "b", "u", "i", "l", "d", "/", "x", ".", "t", "x", "t">>, <<"/", "r", "/", "s", "u", "b", "/", "b", "u", "i", "l", "d", "/", "x", ".", "t", "x", "t">>})
               => (call.ignored /\ LastTest.from = "rules")
        /\ (/\ OnlyRule(gitignoreRules, <<"/", "b", "u", "i", "l", "d", "/">>)
            /\ call.path \in {<<"/", "r", "/", "b", "u", "i", "l", "d">>, <<"/", "r", "/", "b", "u", "i", "l", "d", "/", "x", ".", "t", "x", "t">>})
               => (call.ignored /\ LastTest.from = "rules")
        /\ (/\ OnlyRule(gitignoreRules, <<"/", "b", "u", "i", "l", "d", "/">>)
            /\ call.path \in {<<"/", "r", "/", "s", "u", "b", "/", "b", "u", "i", "l", "d">>, <<"/", "r", "/", "s", "u", "b", "/", "b", "u", "i", "l", "d", "/", "x", ".", "t", "x", "t">>})
               => /\ call.tests[1] =
                         [from |-> "rules", dir |-> Root, pat |-> <<"/", "b", "u", "i", "l", "d", "/">>, hit |-> FALSE]
                  /\ call.ignored
                  /\ LastTest = [from |-> "defaults", dir |-> Root, pat |-> <<"b", "u", "i", "l", "d", "/">>,
                                 hit |-> TRUE]

\* with "/build/" alone at R, R/sub/build/x.txt has been asked about
C3_Witness ==
    /\ Asked
    /\ OnlyRule(gitignoreRules, <<"/", "b", "u", "i", "l", "d", "/">>)
    /\ call.path = <<"/", "r", "/", "s", "u", "b", "/", "b", "u", "i", "l", "d", "/", "x", ".", "t", "x", "t">>
    /\ call.ignored

\* the rules that may be added to a store: negations of the rules of the
\* tree and of its names, and a plain rule
AddableRules == {<<"!", "*", ".", "l", "o", "g">>, <<"!", "b", "u", "i", "l", "d", "/">>, <<"!", "d", "e", "b", "u", "g", ".", "l", "o", "g">>, <<"m", "a", "i", "n", ".", "g", "o">>}

InsertAt(q, n, x) == SubSeq(q, 1, n) \o <<x>> \o SubSeq(q, n + 1, Len(q))

WithRule(store, d, n, pat) ==
    [x \in DOMAIN store \cup {d} |->
         IF x = d THEN InsertAt(Lookup(store, d), n, pat) ELSE store[x]]

\* C8: a path that is ignored stays ignored when a rule is added to the
\* store, in any directory and at any place among its rules, also when the
\* added rule begins with "!".
C8_AddingRulesKeepsIgnored ==
    (Asked /\ call.ignored) =>
        \A d \in TreeDirs, pat \in AddableRules :
            \A n \in 0..Len(Lookup(gitignoreRules, d)) :
                isIgnored(call.path, call.root, WithRule(gitignoreRules, d, n, pat)).ignored

\* sub/debug.log has been ignored by "*.log", which "!*.log" is meant to undo
C8_Witness ==
    /\ Asked
    /\ call.path = <<"/", "r", "/", "s", "u", "b", "/", "d", "e", "b", "u", "g", ".", "l", "o", "g">>
    /\ call.ignored
    /\ LastTest.pat = <<"*", ".", "l", "o", "g">>
    /\ <<"!", "*", ".", "l", "o", "g">> \in AddableRules

White == {" ", "\t", "\n", "\r", "\f"}

\* the places of line that hold no whitespace
Inked(line) == {i \in 1..Len(line) : line[i] \notin White}

\* line from its first to its last character that is not whitespace
Stripped(line) ==
    IF Inked(line) = {} THEN <<>>
    ELSE SubSeq(line, CHOOSE i \in Inked(line) : \A j \in Inked(line) : i <= j,
                      CHOOSE i \in Inked(line) : \A j \in Inked(line) : j <= i)

\* the lines of text that declare a rule, stripped, in file order
Declared(text) ==
    SelectSeq([i \in 1..Len(Split(text, "\n")) |-> Stripped(Split(text, "\n")[i])],
              LAMBDA line : line # <<>> /\ line[1] # "#")

\* C11: after loadGitignores(R) the store maps every directory under R that
\* has a .gitignore to the lines of that file in file order, each trimmed,
\* without the blank lines and the lines whose first character after the
\* whitespace is "#"; a directory without .gitignore has no rules.
C11_StoreHoldsDeclaredLines ==
    (pc \in {"loaded", "asked"}) =>
        /\ \A d \in TreeDirs :
               Lookup(gitignoreRules, d) =
                   IF d \in DOMAIN ignoreFiles THEN Declared(ignoreFiles[d]) ELSE <<>>
        /\ DOMAIN gitignoreRules \subseteq DOMAIN ignoreFiles

\* the .gitignore of sub holds a comment behind a blank, a rule between a
\* blank and a carriage return, and a rule: the store holds the two rules
C11_Witness ==
    /\ pc = "loaded"
    /\ DOMAIN ignoreFiles = {<<"/", "r", "/", "s", "u", "b">>}
    /\ ignoreFiles[<<"/", "r", "/", "s", "u", "b">>] = <<" ", "#", " ", "x", "\n", " ", "*", ".", "l", "o", "g", "\r", "\n", "b", "u", "i", "l", "d", "/">>
    /\ gitignoreRules[<<"/", "r", "/", "s", "u", "b">>] = <<<<"*", ".", "l", "o", "g">>, <<"b", "u", "i", "l", "d", "/">>>>

\* the paths of the tree below the directory d
Descendants(d) == {p \in TreePaths : Under(p, d) /\ p # d}

\* the rule shapes that test rel against "name/" as a prefix: a directory
\* rule, or an anchored plain rule
PrefixRule(pat) ==
    \/ HasSuffix(pat, Slash)
    \/ HasPrefix(pat, Slash) /\ ~HasPrefix(Tail(pat), StarDot)

\* isIgnored is true for every path below the directory the call was about
ClosedUnderDescent ==
    \A p \in Descendants(call.path) : isIgnored(p, call.root, gitignoreRules).ignored

-----------------------------------------------------------------------------
(* Claims about the run, checked under Spec *)

Loaded == gitignoreRules = loadGitignores(folderPath, <<>>, ignoreFiles)

\* C9: the store is filled by loadGitignores once, before the first call of
\* isIgnored, and no later step of the run changes it: no isIgnored,
\* IsTextFile, line-counting or printing step adds, removes or changes an
\* entry.
C9_StoreLoadedOnceThenReadOnly ==
    /\ [](/\ loads <= 1
          /\ (pc = "start") = (loads = 0)
          /\ log # <<>> => loads = 1
          /\ loads = 1 => Loaded)
    /\ [][pc # "start" => (gitignoreRules' = gitignoreRules /\ loads' = loads)]_vars

\* a run has ended after a call that looked up a directory without rules,
\* after IsTextFile and line-counting steps, with the store as it was loaded
C9_Witness ==
    /\ pc = "done"
    /\ loads = 1
    /\ gitignoreRules # <<>>
    /\ \E i \in 1..Len(call.consulted) : call.consulted[i] \notin DOMAIN gitignoreRules
    /\ \E i \in 1..Len(log) : log[i].op = "IsTextFile"
    /\ \E i \in 1..Len(log) : log[i].op = "countLinesInFile"

\* C10: two isIgnored calls of a run about the same path return the same
\* verdict, whatever was called between them.
C10_SameVerdictEveryTime ==
    \A i, j \in 1..Len(log) :
        (log[i].op = "isIgnored" /\ log[j].op = "isIgnored" /\ log[i].path = log[j].path)
            => log[i].result = log[j].result

\* sub/debug.log has been found ignored twice, with an IsTextFile call and
\* an isIgnored call about another path in between
C10_Witness ==
    \E i, j \in 1..Len(log) :
        /\ i < j
        /\ log[i] = Logged("isIgnored", <<"/", "r", "/", "s", "u", "b", "/", "d", "e", "b", "u", "g", ".", "l", "o", "g">>, TRUE)
        /\ log[j] = log[i]
        /\ \E k \in (i + 1)..(j - 1) : log[k].op = "IsTextFile"
        /\ \E k \in (i + 1)..(j - 1) : log[k].op = "isIgnored" /\ log[k].path # log[i].path

\* the files the summary has counted so far
CountedFiles == {log[i].path : i \in {j \in 1..Len(log) : log[j].op = "countLinesInFile"
                                                          /\ log[j].result}}

\* C15: on the tree with src/app.js (tracked), node_modules/lib/index.js
\* (untracked) and dist/bundle.js (tracked), without .gitignore and so
\* without declared rules, the summary counts exactly one file, src/app.js,
\* with the git strategy and with the walk strategy.
C15_SummaryCountsOnlyAppJs ==
    (pc = "done" /\ tree = "app" /\ ignoreFiles = <<>>) =>
        /\ strategy \in {"git", "walk"}
        /\ fileCount = 1
        /\ CountedFiles = {<<"/", "r", "/", "s", "r", "c", "/", "a", "p", "p", ".", "j", "s">>}

\* the walk has ended on that tree without rules and has counted one file
C15_Witness ==
    /\ pc = "done" /\ tree = "app" /\ ignoreFiles = <<>>
    /\ strategy = "walk"
    /\ fileCount = 1

\* no segment of path below root begins with a dot
NoDotComponent(path, root) ==
    \A seg \in {Split(Below(root, path), "/")[i] :
                    i \in 1..Len(Split(Below(root, path), "/"))} : ~HasPrefix(seg, <<".">>)

\* C16: the two strategies filter alike: a tracked file without dot
\* component is counted by the walk if and only if the per-file logic of the
\* git strategy counts it.
C16_StrategiesCountTheSameFiles ==
    (pc = "done" /\ strategy = "walk") =>
        \A i \in 1..Len(TrackedFiles) :
            NoDotComponent(TrackedFiles[i], folderPath) =>
                ((TrackedFiles[i] \in CountedFiles)
                    = Counted(TrackedFiles[i],
                              isIgnored(TrackedFiles[i], folderPath, gitignoreRules).ignored))

\* C17: when the target is a directory, the summary comes from the git
\* strategy only if the root has a .git and git ls-files succeeds; without
\* .git, or when git ls-files fails, the walk computes it, nothing is
\* written to stderr, the run does not abort and the summary is printed.
C17_GitOnlyWhenItWorksElseWalk ==
    /\ [](/\ strategy = "git" => git = "works"
          /\ git \in {"none", "fails"} =>
                 (strategy = "walk" /\ stderr = <<>> /\ pc # "panic"))
    /\ (git \in {"none", "fails"}) ~> (pc = "done")

\* git ls-files has failed and the walk has printed a summary
C17_Witness ==
    /\ pc = "done"
    /\ git = "fails"
    /\ strategy = "walk"
    /\ fileCount > 0

\* C18: a directory that cannot be read never aborts the run.
C18_UnreadableDirectoryNeverAborts == pc # "panic"

\* a name the walks hide
DotName(path) == HasPrefix(Base(path), <<".">>) /\ Base(path) # GitignoreName

\* neither path nor a directory between root and path is hidden or ignored
Clear(path, root, store) ==
    \A q \in TreePaths :
        (Under(path, q) /\ Under(q, root) /\ q # root) =>
            (~DotName(q) /\ ~isIgnored(q, root, store).ignored)

\* C20: in the walk strategy no file is counted and no directory is read
\* that is hidden or ignored or lies below a hidden or ignored directory,
\* and a directory is tested before it is read.
C20_WalkTestsBeforeDescending ==
    (strategy = "walk") =>
        \A i \in 1..Len(log) :
            /\ (log[i].op = "countLinesInFile" /\ log[i].result) =>
                   Clear(log[i].path, folderPath, gitignoreRules)
            /\ log[i].op = "os.ReadDir" =>
                   /\ Clear(log[i].path, folderPath, gitignoreRules)
                   /\ i > 1 /\ log[i - 1] = Logged("isIgnored", log[i].path, FALSE)

\* a walk has ended that read sub, counted main.go, and neither read the
\* ignored directory build nor counted the hidden file .env
C20_Witness ==
    /\ pc = "done" /\ strategy = "walk" /\ tree = "build"
    /\ <<"/", "r", "/", "m", "a", "i", "n", ".", "g", "o">> \in CountedFiles
    /\ <<"/", "r", "/", ".", "e", "n", "v">> \notin CountedFiles
    /\ \E i \in 1..Len(log) : log[i] = Logged("os.ReadDir", <<"/", "r", "/", "s", "u", "b">>, TRUE)
    /\ \A i \in 1..Len(log) : ~(log[i].op = "os.ReadDir" /\ log[i].path = <<"/", "r", "/", "b", "u", "i", "l", "d">>)

\* the strategy is about to decide on the file at the head of its work list
Enumerates ==
    /\ pc \in {"git", "count"} /\ stack # <<>>
    /\ Head(stack).stage \in {"tracked", "count"}
    /\ ~isDir(Head(stack).path)

\* the three tests of the per-file rule, made on the file itself
Passes(path) ==
    /\ ~isIgnored(path, folderPath, gitignoreRules).ignored
    /\ IsTextFile(path, Exists(path, ignoreFiles), FileData(path, ignoreFiles))
    /\ countLinesInFile(Exists(path, ignoreFiles), FileData(path, ignoreFiles)).ok

\* the files that passed, one index of the log for each time one was counted
PassedAt == {i \in 1..Len(log) : log[i].op = "countLinesInFile" /\ log[i].result}

RECURSIVE SumOfLines(_)
SumOfLines(at) ==
    IF at = {} THEN 0
    ELSE LET i == CHOOSE x \in at : TRUE
         IN  Newlines(FileData(log[i].path, ignoreFiles)) + SumOfLines(at \ {i})

\* one step of the summary adds to the totals what the per-file rule says
PerFileStep ==
    IF Enumerates /\ Passes(Head(stack).path)
    THEN /\ fileCount' = fileCount + 1
         /\ lineCount' = lineCount + Newlines(FileData(Head(stack).path, ignoreFiles))
    ELSE /\ fileCount' = fileCount
         /\ lineCount' = lineCount

\* C21: in the git strategy and in the walk an enumerated file adds 1 to the
\* file count and its newlines to the line count exactly when isIgnored is
\* false, IsTextFile is true and its lines were counted without error, and
\* nothing otherwise; no other step changes the totals, which are at every
\* moment the number of files that passed and the sum of their newlines.
C21_PerFileRule ==
    /\ [][PerFileStep]_vars
    /\ [](/\ fileCount = Cardinality(PassedAt)
          /\ lineCount = SumOfLines(PassedAt))

\* a summary by git ls-files that dropped the ignored directory old.log with
\* its file and the tracked file gone.txt, a text name that cannot be opened
C21_Witness ==
    /\ pc = "done" /\ strategy = "git" /\ tree = "logs"
    /\ fileCount = 0
    /\ \E i \in 1..Len(log) : log[i] = Logged("countLinesInFile", <<"/", "r", "/", "g", "o", "n", "e", ".", "t", "x", "t">>, FALSE)
    /\ \E i \in 1..Len(log) : log[i] = Logged("isIgnored", <<"/", "r", "/", "o", "l", "d", ".", "l", "o", "g", "/", "a", ".", "t", "x", "t">>, TRUE)

\* the number of directories on the way from root down to path, path included
Depth(path, root) == Len(Split(Below(root, path), "/"))

\* the depth of the deepest directory of the tree
TreeDepth(root) ==
    CHOOSE n \in 0..Cardinality(TreeDirs) :
        /\ \A d \in TreeDirs \ {root} : Depth(d, root) <= n
        /\ n = 0 \/ \E d \in TreeDirs \ {root} : Depth(d, root) = n

\* C23: the walk of the summary descends no deeper than the tree is deep,
\* also when an entry is a symbolic link to one of its ancestors: every
\* directory it reads lies at most TreeDepth below the root.
C23_WalkDepthBoundedByTree ==
    (strategy = "walk") =>
        \A i \in 1..Len(log) :
            log[i].op = "os.ReadDir" => Depth(log[i].path, folderPath) <= TreeDepth(folderPath)

-----------------------------------------------------------------------------
(* Claims about the text classifier and the line counter, checked under    *)
(* SpecText                                                                *)

Classified == pc = "classified"

\* the first 8192 bytes of the file
Sample == SubSeq(textData, 1, IF Len(textData) < 8192 THEN Len(textData) ELSE 8192)

HasNul(s) == \E i \in 1..Len(s) : s[i] = "NUL"

\* C12 as claimed: a file whose first 8192 bytes hold a NUL byte is not
\* text, whatever its name.
C12_AsClaimed ==
    (Classified /\ textOpened /\ HasNul(Sample)) => (isText.text = FALSE)

\* C12 amended: a file whose first 8192 bytes hold a NUL byte and whose name
\* gives no text signal is not text; with a text name or extension the file
\* is text and its bytes are not read.
C12_NulMeansBinaryUnlessTextName ==
    (Classified /\ textOpened /\ HasNul(Sample)) =>
        /\ ~hasTextyName(textPath) => (isText.text = FALSE)
        /\ hasTextyName(textPath) => (isText.text = TRUE /\ ~isText.opens)

\* a file without text name whose 8192nd byte is its only NUL is not text
C12_Witness ==
    /\ Classified
    /\ textPath = <<"/", "r", "/", "b", "l", "o", "b">>
    /\ Len(textData) = 8192 /\ textData[8192] = "NUL"
    /\ isText.text = FALSE

\* C13 as claimed: a path that cannot be opened is not text, whatever its
\* name.
C13_AsClaimed ==
    (Classified /\ ~textOpened) => (isText.text = FALSE)

\* C13 amended: a path that cannot be opened and whose name gives no text
\* signal is not text; with a text name or extension the path is text and no
\* open is attempted.
C13_UnopenedMeansBinaryUnlessTextName ==
    (Classified /\ ~textOpened) =>
        /\ ~hasTextyName(textPath) => (isText.text = FALSE /\ isText.opens)
        /\ hasTextyName(textPath) => (isText.text = TRUE /\ ~isText.opens)

\* x.bin could not be opened and is not text
C13_Witness ==
    /\ Classified
    /\ textPath = <<"/", "r", "/", "x", ".", "b", "i", "n">>
    /\ ~textOpened
    /\ isText.text = FALSE

\* the segments that end in a newline: all the segments but the last
Terminated(data) == Len(Split(data, "\n")) - 1

\* C14: for a file that can be opened, countLinesInFile returns, without
\* error, the number of its newline bytes: a last segment without newline is
\* not counted, "a\nb\nc" counts 2, "a\nb\nc\n" counts 3, an empty file 0.
C14_CountsNewlines ==
    (pc = "lines" /\ textOpened) =>
        /\ lineResult.ok
        /\ lineResult.count = Terminated(textData)
        /\ textData = <<"a", "\n", "b", "\n", "c">> => lineResult.count = 2
        /\ textData = <<"a", "\n", "b", "\n", "c", "\n">> => lineResult.count = 3
        /\ textData = <<>> => lineResult.count = 0

\* "a\nb\nc" has been counted as 2 lines
C14_Witness ==
    /\ pc = "lines"
    /\ textOpened
    /\ textData = <<"a", "\n", "b", "\n", "c">>
    /\ lineResult = [ok |-> TRUE, count |-> 2]

TextMime(s) ==
    \/ HasPrefix(DetectContentType(s), <<"t", "e", "x", "t", "/">>)
    \/ DetectContentType(s) \in {<<"a", "p", "p", "l", "i", "c", "a", "t", "i", "o", "n", "/", "j", "s", "o", "n">>, <<"a", "p", "p", "l", "i", "c", "a", "t", "i", "o", "n", "/", "j", "a", "v", "a", "s", "c", "r", "i", "p", "t">>,
                                 <<"a", "p", "p", "l", "i", "c", "a", "t", "i", "o", "n", "/", "x", "m", "l">>, <<"i", "m", "a", "g", "e", "/", "s", "v", "g", "+", "x", "m", "l">>}

PrintableShare(s) == Cardinality({i \in 1..Len(s) : s[i] \in {"a", "\n"}})

\* C19: for a file that can be opened and whose name gives no text signal,
\* the first 8192 bytes decide, in this order: empty is text; a NUL byte is
\* binary; a text, JSON, JavaScript, XML or SVG type is text; valid UTF-8 is
\* text; otherwise text exactly when 100 * printable >= 95 * length.  A file
\* with a text name or extension is text and its content is not read.
C19_ContentSignalOrder ==
    Classified =>
        /\ hasTextyName(textPath) => (isText.text = TRUE /\ ~isText.opens)
        /\ (~hasTextyName(textPath) /\ textOpened) =>
               /\ isText.opens
               /\ Sample = <<>> => isText.text = TRUE
               /\ (Sample # <<>> /\ HasNul(Sample)) => isText.text = FALSE
               /\ (Sample # <<>> /\ ~HasNul(Sample) /\ TextMime(Sample)) => isText.text = TRUE
               /\ (Sample # <<>> /\ ~HasNul(Sample) /\ ~TextMime(Sample) /\ Utf8Valid(Sample))
                      => isText.text = TRUE
               /\ (Sample # <<>> /\ ~HasNul(Sample) /\ ~TextMime(Sample) /\ ~Utf8Valid(Sample))
                      => isText.text = (100 * PrintableShare(Sample) >= 95 * Len(Sample))

\* a sample of 40 bytes with a binary byte and a byte that is not UTF-8 is
\* text with exactly 95% of printable bytes
C19_Witness ==
    /\ Classified
    /\ textPath = <<"/", "r", "/", "b", "l", "o", "b">>
    /\ textOpened
    /\ Len(textData) = 40 /\ textData[39] = "x01" /\ textData[40] = "xFF"
    /\ isText.text = TRUE

====
